---- MODULE Spec2Model ----
(***************************************************************************)
(* The Monaco editor adapter of packages/monaco/src/editor.ts              *)
(* (MonacoCodeEditor) bound to a Document Model (CodeEditor.IModel).       *)
(*                                                                         *)
(* All handlers run synchronously on one thread and call each other        *)
(* through signals, so a run is a call stack: `stack` holds the frames of   *)
(* the handlers in progress (head = innermost).  While the stack is empty   *)
(* the host, the user or the embedded component starts the next operation. *)
(* `trace` lists what the operation in progress (or the last one) did.      *)
(***************************************************************************)
EXTENDS Integers, Sequences, FiniteSets, TLC

\* ------------------------------------------------------------------ bounds

\* Longest text of the Document Model and of an embedded buffer.
MaxLen == 2

\* The characters of a text: a letter and the line feed.
Chars == {"a", "\n"}

\* The adapters (views) that may be bound to the one Document Model.
Adapters == {1, 2}

\* The embedded buffers (monaco models) each embedded editor can show.
Buffers == {1, 2}

Texts == UNION {[1..n -> Chars] : n \in 0..MaxLen}

\* ---------------------------------------------------- MIME <-> language table

Languages == {"plaintext", "python"}

MimeTypes == {"", "text/plain", "text/x-python", "text/x-ipython"}

\* findLanguageIdForMimeType of ./language (not among the sources).
findLanguageIdForMimeType(mimeType) ==
    CASE mimeType = "text/x-python"  -> "python"
      [] mimeType = "text/x-ipython" -> "python"
      [] OTHER                       -> "plaintext"

\* findMimeTypeForLanguageId of ./language (not among the sources).
findMimeTypeForLanguageId(languageId) ==
    CASE languageId = "python" -> "text/x-python"
      [] OTHER                 -> "text/plain"

\* ------------------------------------------------------------ text helpers

Min(x, y) == IF x < y THEN x ELSE y

Max(x, y) == IF x > y THEN x ELSE y

Clamp(x, lo, hi) == Max(lo, Min(x, hi))

\* text with the characters at offsets [s, e) replaced by value.
Splice(text, s, e, value) ==
    SubSeq(text, 1, s) \o value \o SubSeq(text, e + 1, Len(text))

\* Offsets (1-based indices) of the line feeds of text.
LineFeeds(text) == {i \in 1..Len(text) : text[i] = "\n"}

\* monaco IModel.getLineCount.
getLineCount(text) == Cardinality(LineFeeds(text)) + 1

\* Offset at which line n (1-based) of text starts.
LineStart(text, n) ==
    IF n <= 1 THEN 0
    ELSE CHOOSE i \in LineFeeds(text) :
            Cardinality({j \in LineFeeds(text) : j <= i}) = n - 1

\* Length of line n (1-based) of text, its line feed excluded.
LineLength(text, n) ==
    (IF n >= getLineCount(text) THEN Len(text) ELSE LineStart(text, n + 1) - 1)
        - LineStart(text, n)

\* monaco IModel.getPositionAt: the offset is clamped into the text.
getPositionAt(text, offset) ==
    LET o     == Clamp(offset, 0, Len(text))
        feeds == {i \in LineFeeds(text) : i <= o}
        start == IF feeds = {} THEN 0 ELSE CHOOSE i \in feeds : \A j \in feeds : j <= i
    IN  [lineNumber |-> Cardinality(feeds) + 1, column |-> o - start + 1]

\* monaco IModel.getLineMaxColumn.
getLineMaxColumn(text, lineNumber) == LineLength(text, lineNumber) + 1

\* monaco IModel.validatePosition: a line before the first gives the start of
\* the text, a line after the last the end of the text; else the column is
\* clamped into the line.
validatePosition(text, position) ==
    IF position.lineNumber < 1
    THEN [lineNumber |-> 1, column |-> 1]
    ELSE IF position.lineNumber > getLineCount(text)
    THEN [lineNumber |-> getLineCount(text),
          column |-> getLineMaxColumn(text, getLineCount(text))]
    ELSE [lineNumber |-> position.lineNumber,
          column |-> Clamp(position.column, 1,
                           getLineMaxColumn(text, position.lineNumber))]

\* monaco IModel.getOffsetAt: the position is validated first.
getOffsetAt(text, position) ==
    LET p == validatePosition(text, position)
    IN  LineStart(text, p.lineNumber) + p.column - 1

\* new monaco.Range(...): the constructor orders its two ends.
Range(startLineNumber, startColumn, endLineNumber, endColumn) ==
    IF startLineNumber > endLineNumber
       \/ (startLineNumber = endLineNumber /\ startColumn > endColumn)
    THEN [start |-> [lineNumber |-> endLineNumber, column |-> endColumn],
          end   |-> [lineNumber |-> startLineNumber, column |-> startColumn]]
    ELSE [start |-> [lineNumber |-> startLineNumber, column |-> startColumn],
          end   |-> [lineNumber |-> endLineNumber, column |-> endColumn]]

\* new monaco.Selection(...): a range (ordered) that remembers which of its
\* ends the cursor is at, the second one given.
Selection(selectionStartLineNumber, selectionStartColumn, positionLineNumber, positionColumn) ==
    LET r == Range(selectionStartLineNumber, selectionStartColumn,
                   positionLineNumber, positionColumn)
    IN  [start |-> r.start,
         position |-> [lineNumber |-> positionLineNumber, column |-> positionColumn],
         end |-> r.end]

\* monaco IModel.validateRange: the range of the two validated ends.
validateRange(text, range) ==
    LET start == validatePosition(text, range.start)
        end   == validatePosition(text, range.end)
    IN  Range(start.lineNumber, start.column, end.lineNumber, end.column)

\* monaco IModel.applyEdits with one edit {range, text}.
applyEdits(text, range, value) ==
    Splice(text, getOffsetAt(text, range.start), getOffsetAt(text, range.end), value)

\* ------------------------------------------------------------------- state

VARIABLES
    docText,          \* Document Model: model.value.text
    docMime,          \* Document Model: model.mimeType
    textListeners,    \* adapters connected to model.value.changed, in order
    mimeListeners,    \* adapters connected to model.mimeTypeChanged, in order
    status,           \* per adapter: "none" (not constructed), "live", "disposed"
    edModel,          \* per adapter: the buffer its embedded editor shows
    bufText,          \* per adapter and buffer: the buffer's text
    bufLang,          \* per adapter and buffer: the buffer's language id
    bufListeners,     \* per adapter and buffer: kinds of the listeners attached
    modelListeners,   \* per adapter: _monacoModelListeners (disposables)
    changeGuard,      \* per adapter: _changeGuard
    mimeGuard,        \* per adapter: _mimeTypeChangeGuard
    stack,            \* frames of the handlers in progress, innermost first
    root,             \* the operation in progress, or the last one
    trace,            \* what that operation has done so far
    edSelections,     \* per adapter: the selections of the embedded editor
    edPosition,       \* per adapter: the cursor position of the embedded editor
    readOnly,         \* per adapter: the embedded editor's readOnly option
    suggestWidgetVisible, \* per adapter: context key suggestWidgetVisible
    viewOptions,      \* per adapter: the editor's lineNumbers and wordWrap options
    listeners,        \* per adapter: _listeners (disposables of editor events)
    keydownHandlers,  \* per adapter: _keydownHandlers
    editorDisposals,  \* per adapter: how often _editor.dispose() was called
    subscriptions,    \* per adapter: the disposables addKeydownHandler returned
    result,           \* the argument and the return value of the last query
    autoSizing,       \* per adapter: autoSizing
    minHeight,        \* per adapter: minHeight
    hostNode,         \* per adapter: the editor's DOM node and its parent element
    editorLayout,     \* per adapter: the dimension last given to editor.layout
    bufUndo,          \* per adapter and buffer: the undo stack (earlier texts)
    bufRedo           \* per adapter and buffer: the redo stack (undone texts)

docVars == <<docText, docMime, textListeners, mimeListeners>>

bufVars == <<edModel, bufText, bufLang, bufListeners, modelListeners>>

guardVars == <<changeGuard, mimeGuard>>

\* The embedded editor's cursor state and options.
cursorVars == <<edSelections, edPosition, readOnly, suggestWidgetVisible, viewOptions>>

\* What the adapter holds besides the bridge: editor listeners and keydown
\* handlers, and the disposals of its editor.
ownedVars == <<listeners, keydownHandlers, editorDisposals, subscriptions>>

\* The sizing options of the adapter, the DOM around the embedded editor and
\* the layout the embedded editor was last given.
layoutVars == <<autoSizing, minHeight, hostNode, editorLayout>>

\* The edit history of the embedded buffers.
historyVars == <<bufUndo, bufRedo>>

vars == <<docText, docMime, textListeners, mimeListeners, status, edModel,
          bufText, bufLang, bufListeners, modelListeners, changeGuard,
          mimeGuard, stack, root, trace, edSelections, edPosition, readOnly,
          suggestWidgetVisible, viewOptions, listeners, keydownHandlers,
          editorDisposals, subscriptions, result, autoSizing, minHeight, hostNode, editorLayout, bufUndo,
          bufRedo>>

\* --------------------------------------------------------- frames and trace

NoChange == [value |-> <<>>, start |-> 0, end |-> 0, type |-> "none"]

Change(type, start, end, value) ==
    [value |-> value, start |-> start, end |-> end, type |-> type]

\* getDomNode() of the embedded editor returns no node.
NoDomNode == [dom |-> FALSE, parent |-> FALSE, offsetWidth |-> 0, offsetHeight |-> 0,
              horizontalSum |-> 0, verticalSum |-> 0]

\* editor.layout has not been called by the adapter.
NoLayout == [applied |-> FALSE, width |-> 0, height |-> 0]

\* The configuration of an embedded editor created with no options:
\* lineNumbers, wordWrap and readOnly.
DefaultConfiguration == [readOnly |-> FALSE, lineNumbers |-> TRUE, wordWrap |-> FALSE]

\* An initial option of the adapter that is supplied with `value`, and one
\* that is undefined.
Supplied(value) == [value |-> value, given |-> TRUE]

Undefined == [value |-> FALSE, given |-> FALSE]

\* Construction options that supply none of lineNumbers, wordWrap, readOnly.
NoInitialOptions == [readOnly |-> Undefined, lineNumbers |-> Undefined, wordWrap |-> Undefined]

\* No query has been made.
NoResult == [value |-> "none", arg |-> "none"]

\* A frame: handler proc of adapter a at step pc, with its arguments.
Frame(proc, a, b, ch, arg, ls) ==
    [arg |-> arg, proc |-> proc, a |-> a, b |-> b, ch |-> ch, ls |-> ls, pc |-> 0]

\* A frame of a handler of adapter a that takes no argument, or the string arg.
Call(proc, a, arg) == Frame(proc, a, 0, NoChange, arg, <<>>)

\* An entry of the trace: ev happened to adapter a (buffer b), done by `by`
\* (an adapter's handler, or 0 for the host, the user or the component).
Event(ev, a, b, by) == [a |-> a, b |-> b, ev |-> ev, by |-> by]

Top == Head(stack)

Idle == stack = <<>>

\* The top frame moved to step pc.
At(pc) == [Top EXCEPT !.pc = pc]

Count(ev, a) == Cardinality({i \in 1..Len(trace) : trace[i].ev = ev /\ trace[i].a = a})

CountAll(ev) == Cardinality({i \in 1..Len(trace) : trace[i].ev = ev})

\* The receivers of an event of kind `kind` of buffer b of adapter a: adapter a
\* once per listener of that kind attached to the buffer, in attachment order.
Receivers(a, b, kind) ==
    [i \in 1..Len(SelectSeq(bufListeners[a][b], LAMBDA k : k = kind)) |-> a]

\* ls without its first element equal to x.
RECURSIVE RemoveOne(_, _)
RemoveOne(ls, x) ==
    IF ls = <<>> THEN <<>>
    ELSE IF Head(ls) = x THEN Tail(ls)
    ELSE <<Head(ls)>> \o RemoveOne(Tail(ls), x)

Init ==
    /\ docText \in Texts
    /\ docMime \in MimeTypes
    /\ textListeners = <<>>
    /\ mimeListeners = <<>>
    /\ status = [a \in Adapters |-> "none"]
    /\ edModel = [a \in Adapters |-> 1]
    /\ bufText = [a \in Adapters |-> [b \in Buffers |-> <<>>]]
    /\ bufLang = [a \in Adapters |-> [b \in Buffers |-> "plaintext"]]
    /\ bufListeners = [a \in Adapters |-> [b \in Buffers |-> <<>>]]
    /\ modelListeners = [a \in Adapters |-> <<>>]
    /\ changeGuard = [a \in Adapters |-> FALSE]
    /\ mimeGuard = [a \in Adapters |-> FALSE]
    /\ stack = <<>>
    /\ root = [a |-> 0, b |-> 0, op |-> "init"]
    /\ trace = <<>>
    /\ edSelections = [a \in Adapters |-> <<>>]
    /\ edPosition = [a \in Adapters |-> [lineNumber |-> 1, column |-> 1]]
    /\ readOnly = [a \in Adapters |-> FALSE]
    /\ suggestWidgetVisible = [a \in Adapters |-> FALSE]
    /\ viewOptions = [a \in Adapters |-> [lineNumbers |-> DefaultConfiguration.lineNumbers,
                                           wordWrap |-> DefaultConfiguration.wordWrap]]
    /\ listeners = [a \in Adapters |-> <<>>]
    /\ keydownHandlers = [a \in Adapters |-> <<>>]
    /\ editorDisposals = [a \in Adapters |-> 0]
    /\ subscriptions = [a \in Adapters |-> <<>>]
    /\ result = NoResult
    /\ autoSizing = [a \in Adapters |-> FALSE]
    /\ minHeight = [a \in Adapters |-> 0 - 1]
    /\ hostNode = [a \in Adapters |-> NoDomNode]
    /\ editorLayout = [a \in Adapters |-> NoLayout]
    /\ bufUndo = [a \in Adapters |-> [b \in Buffers |-> <<>>]]
    /\ bufRedo = [a \in Adapters |-> [b \in Buffers |-> <<>>]]

\* ------------------------------------------------------- signal delivery
\* A signal being emitted is a frame whose ls lists the receivers still to
\* be called.  Emission is synchronous: the first receiver's handler is
\* called at once, and the next one when that handler has returned.

Signals == {"emitChanged", "emitMimeTypeChanged", "fireContent", "fireLanguage"}

\* model.value.changed, emitted with `change` to the connected adapters.
emitChanged(change) == Frame("emitChanged", 0, 0, change, "", textListeners)

\* model.mimeTypeChanged, emitted with the new value m.
emitMimeTypeChanged(m) == Frame("emitMimeTypeChanged", 0, 0, NoChange, m, mimeListeners)

\* onDidChangeContent of buffer b of adapter a.
fireContent(a, b) == Frame("fireContent", a, b, NoChange, "", Receivers(a, b, "content"))

\* onDidChangeLanguage of buffer b of adapter a, whose new language is l.
fireLanguage(a, b, l) == Frame("fireLanguage", a, b, NoChange, l, Receivers(a, b, "language"))

\* _onValueChanged(value, change) of adapter a: it calls
\* doHandleModelValueChanged(change) first, and goes on when that returns.
onValueChangedCall(a, change) ==
    <<Frame("doHandleModelValueChanged", a, 0, change, "", <<>>),
      [Frame("onValueChanged", a, 0, change, "", <<>>) EXCEPT !.pc = 1]>>

\* _onDidContentChanged(event) of adapter a: updateValue().
onDidContentChanged(a) == <<Call("updateValue", a, "")>>

\* _onDidChangeLanguage(event) of adapter a:
\* updateMimeType(findMimeTypeForLanguageId(event.newLanguage)).
onDidChangeLanguage(a, newLanguage) ==
    <<Call("updateMimeType", a, findMimeTypeForLanguageId(newLanguage))>>

\* A change listener of the host connected to model.value.changed, next to
\* the adapters.
HostListener == 0

\* The frames of the handler that signal sig calls on its receiver r.
Slot(sig, r) ==
    CASE sig.proc = "emitChanged"         -> IF r = HostListener
                                             THEN <<Call("hostListener", HostListener, "")>>
                                             ELSE onValueChangedCall(r, sig.ch)
      [] sig.proc = "emitMimeTypeChanged" -> <<Call("onMimeTypeChanged", r, sig.arg)>>
      [] sig.proc = "fireContent"         -> onDidContentChanged(r)
      [] sig.proc = "fireLanguage"        -> onDidChangeLanguage(r, sig.arg)

\* Emitting sig: its first receiver's handler, above the signal with the
\* receivers left; nothing when no receiver is left.
Emit(sig) ==
    IF sig.ls = <<>> THEN <<>>
    ELSE Slot(sig, Head(sig.ls))
         \o (IF Tail(sig.ls) = <<>> THEN <<>> ELSE <<[sig EXCEPT !.ls = Tail(@)]>>)

\* The stack once the top frame has returned: a signal below it goes on with
\* its next receiver.
Return ==
    LET rest == Tail(stack)
    IN  IF rest # <<>> /\ Head(rest).proc \in Signals
        THEN Emit(Head(rest)) \o Tail(rest)
        ELSE rest

\* ---------------------------------------------------------- Document Model

\* model.value.text = v, by adapter `by` (0: the host): the text is assigned
\* and the changed signal is emitted.  rest is the stack below, base the
\* trace so far.
ValueSet(v, by, rest, base) ==
    /\ docText' = v
    /\ stack' = Emit(emitChanged(Change("set", 0, Len(v), v))) \o rest
    /\ trace' = Append(base, Event("doc.text", 0, 0, by))

\* model.mimeType = m, by adapter `by` (0: the host).
MimeTypeSet(m, by, rest, base) ==
    /\ docMime' = m
    /\ stack' = Emit(emitMimeTypeChanged(m)) \o rest
    /\ trace' = Append(base, Event("doc.mime", 0, 0, by))

\* The host assigns model.value.text.
DocSetText(v) ==
    /\ Idle
    /\ ValueSet(v, 0, <<>>, <<>>)
    /\ root' = [a |-> 0, b |-> 0, op |-> "doc.set"]
    /\ UNCHANGED <<docMime, textListeners, mimeListeners, status, cursorVars, ownedVars, layoutVars, historyVars, result, bufVars, guardVars>>

\* A host mutation of the text that is not a full assignment: the characters
\* at [s, e) are replaced by v and the change {type, start, end, value} is
\* emitted.
DocSplice(type, s, e, v) ==
    /\ Idle
    /\ Len(docText) - (e - s) + Len(v) <= MaxLen
    /\ docText' = Splice(docText, s, e, v)
    /\ stack' = Emit(emitChanged(Change(type, s, e, v)))
    /\ trace' = <<Event("doc.text", 0, 0, 0)>>
    /\ root' = [a |-> 0, b |-> 0, op |-> "doc." \o type]
    /\ UNCHANGED <<docMime, textListeners, mimeListeners, status, cursorVars, ownedVars, layoutVars, historyVars, result, bufVars, guardVars>>

\* model.value.insert(i, v).
DocInsert(i, v) == v # <<>> /\ DocSplice("insert", i, i, v)

\* model.value.remove(s, e).
DocRemove(s, e) == s < e /\ DocSplice("remove", s, e, <<>>)

\* A replace-type change of the text.
DocReplace(s, e, v) == s < e /\ v # <<>> /\ DocSplice("replace", s, e, v)

\* The host assigns model.mimeType.
DocSetMimeType(m) ==
    /\ Idle
    /\ MimeTypeSet(m, 0, <<>>, <<>>)
    /\ root' = [a |-> 0, b |-> 0, op |-> "doc.mime"]
    /\ UNCHANGED <<docText, textListeners, mimeListeners, status, cursorVars, ownedVars, layoutVars, historyVars, result, bufVars, guardVars>>

\* ------------------------------------------------ content channel (adapter)

\* editor.getModel() of an editor that shows no buffer.
NoBuffer == 0

\* The condition of the getter monacoModel: the embedded editor of adapter a
\* shows a buffer.  Without one the getter raises an error.
hasModel(a) == edModel[a] # NoBuffer

\* this.monacoModel: the buffer the embedded editor of adapter a shows.
monacoModel(a) == edModel[a]

\* The stack once a handler has raised an error: the error propagates to the
\* caller that started the operation, and the handlers in progress are
\* abandoned as they are.
Raised == <<>>

\* Mutant of doHandleGuarded: the guard check is missing.
doHandleUnguarded(a) == FALSE

\* Mutant of doHandleGuarded: one guard is shared by all adapters.
doHandleGuardedShared(a) == \E x \in Adapters : changeGuard[x]

\* The guard check of doHandleModelValueChanged.
doHandleGuarded(a) == changeGuard[a]

\* Mutant of updateValueGuarded: the guard check is missing.
updateValueUnguarded(a) == FALSE

\* The guard check of updateValue.
updateValueGuarded(a) == changeGuard[a]

\* Mutant of changedValue: every change is applied as a full replace.
changedValueAsSet(text, change) == change.value

\* Mutant of changedValue: the edit's range ends where it starts.
changedValueEmptyRange(text, change) ==
    IF change.type = "set" THEN change.value
    ELSE LET start == getPositionAt(text, change.start)
             range == Range(start.lineNumber, start.column, start.lineNumber, start.column)
         IN  applyEdits(text, range, change.value)

\* The text a buffer holding `text` has after the switch of
\* doHandleModelValueChanged has applied `change` to it.
changedValue(text, change) ==
    IF change.type = "set" THEN change.value
    ELSE LET start == getPositionAt(text, change.start)
             end   == getPositionAt(text, change.end)
             range == Range(start.lineNumber, start.column, end.lineNumber, end.column)
         IN  applyEdits(text, range, change.value)

\* The undo (or redo) stack `history` of a buffer after the switch of
\* doHandleModelValueChanged has applied `change` to it: setValue empties the
\* stack, and applyEdits leaves it alone.
changedHistory(history, change) ==
    IF change.type = "set" THEN <<>> ELSE history

\* The value updateValue assigns to the Document Model.
updateValueText(a) == bufText[a][monacoModel(a)]

\* ------------------------------------------------------------------ layout

\* configuration.lineHeight of the embedded editor, in pixels.
lineHeight == 20

\* configuration.layoutInfo.horizontalScrollbarHeight, in pixels.
horizontalScrollbarHeight == 10

\* A dimension {width, height}, and the null dimension.
Dimension(width, height) == [width |-> width, height |-> height, isNull |-> FALSE]

NullDimension == [width |-> 0, height |-> 0, isNull |-> TRUE]

\* The editor's DOM node inside a parent element with the given offset size
\* and sums of paddings and borders; and the editor's DOM node with no parent.
HostElement(offsetWidth, offsetHeight, horizontalSum, verticalSum) ==
    [dom |-> TRUE, parent |-> TRUE, offsetWidth |-> offsetWidth,
     offsetHeight |-> offsetHeight, horizontalSum |-> horizontalSum,
     verticalSum |-> verticalSum]

NoParent == [NoDomNode EXCEPT !.dom = TRUE]

\* What editor.layout(size) leaves behind.
Layout(size) == [applied |-> TRUE, width |-> size.width, height |-> size.height]

\* lineCount: the number of lines of the shown buffer.
lineCount(a) == getLineCount(bufText[a][monacoModel(a)])

\* Mutant of getHostNode: a node is returned whatever the DOM.
getHostNodeAlways(a) == [found |-> TRUE, node |-> hostNode[a]]

\* getHostNode(): the parent element of the editor's DOM node, when there is
\* one.
getHostNode(a) ==
    [found |-> hostNode[a].dom /\ hostNode[a].parent, node |-> hostNode[a]]

\* ElementExt.boxSizing(hostNode), as far as it is used.
boxSizing(node) ==
    [horizontalSum |-> node.horizontalSum, verticalSum |-> node.verticalSum]

\* getWidth(hostNode, boxSizing).
getWidth(node, box) == node.offsetWidth - box.horizontalSum

\* Mutant of contentHeight: the minimal height is not applied.
contentHeightNoMinimum(lines, minimal) ==
    lineHeight * lines + horizontalScrollbarHeight

\* The height of the content of `lines` lines under a minimal height of
\* `minimal` lines: the auto-sizing branch of getHeight.
contentHeight(lines, minimal) ==
    LET editorHeight  == lineHeight * lines + horizontalScrollbarHeight
        defaultHeight == lineHeight * minimal + horizontalScrollbarHeight
    IN  IF minimal < 0 THEN editorHeight ELSE Max(defaultHeight, editorHeight)

\* getHeight(hostNode, boxSizing).
getHeight(a, node, box) ==
    IF ~autoSizing[a]
    THEN node.offsetHeight - box.verticalSum
    ELSE contentHeight(lineCount(a), minHeight[a])

\* Mutant of computeLayoutSize: a dimension with a negative component is
\* computed as a whole.
computeLayoutSizeWhole(a, node, dimension) ==
    IF ~dimension.isNull /\ dimension.width >= 0 /\ dimension.height >= 0
    THEN [width |-> dimension.width, height |-> dimension.height]
    ELSE LET box == boxSizing(node)
         IN  [width |-> getWidth(node, box), height |-> getHeight(a, node, box)]

\* computeLayoutSize(hostNode, dimension).
computeLayoutSize(a, node, dimension) ==
    IF ~dimension.isNull /\ dimension.width >= 0 /\ dimension.height >= 0
    THEN [width |-> dimension.width, height |-> dimension.height]
    ELSE LET box == boxSizing(node)
         IN  [width  |-> IF dimension.isNull \/ dimension.width < 0
                         THEN getWidth(node, box) ELSE dimension.width,
              height |-> IF dimension.isNull \/ dimension.height < 0
                         THEN getHeight(a, node, box) ELSE dimension.height]

\* computeLayoutSize(hostNode, dimension) reads lineCount, and with it the
\* getter monacoModel: the height is to be computed, with auto-sizing.
readsLineCount(a, dimension) ==
    autoSizing[a] /\ (dimension.isNull \/ dimension.height < 0)

\* resize(dimension) after the events `base`: when there is a host node, the
\* layout size is computed from it and given to editor.layout.  An error
\* raised on the way leaves the layout as it is.
resize(a, dimension, base) ==
    LET host == getHostNode(a)
    IN  IF host.found /\ readsLineCount(a, dimension) /\ ~hasModel(a)
        THEN [trace |-> Append(base, Event("error", a, 0, a)),
              layout |-> editorLayout[a], raised |-> TRUE]
        ELSE IF host.found
        THEN [trace  |-> Append(base, Event("layout", a, 0, a)),
              layout |-> Layout(computeLayoutSize(a, host.node, dimension)),
              raised |-> FALSE]
        ELSE [trace |-> base, layout |-> editorLayout[a], raised |-> FALSE]

\* Mutant of autoresize: it never resizes.
autoresizeNever(a, base) ==
    [trace |-> Append(base, Event("autoresize", a, 0, a)), layout |-> editorLayout[a],
     raised |-> FALSE]

\* autoresize() after the events `base`: resize(null) when auto-sizing.
autoresize(a, base) ==
    LET called == Append(base, Event("autoresize", a, 0, a))
    IN  IF autoSizing[a]
        THEN resize(a, NullDimension, called)
        ELSE [trace |-> called, layout |-> editorLayout[a], raised |-> FALSE]

\* Mutant of onValueChanged: it returns without autoresize().
onValueChangedNoResize ==
    /\ ~Idle
    /\ Top.proc = "onValueChanged"
    /\ stack' = Return
    /\ UNCHANGED <<docVars, status, cursorVars, ownedVars, layoutVars, historyVars,
                   result, bufVars, guardVars, root, trace>>

\* _onValueChanged, once doHandleModelValueChanged(change) has returned:
\* autoresize().
onValueChanged ==
    /\ ~Idle
    /\ Top.proc = "onValueChanged"
    /\ stack' = IF autoresize(Top.a, trace).raised THEN Raised ELSE Return
    /\ trace' = autoresize(Top.a, trace).trace
    /\ editorLayout' = [editorLayout EXCEPT ![Top.a] = autoresize(Top.a, trace).layout]
    /\ UNCHANGED <<docVars, status, cursorVars, ownedVars, autoSizing, minHeight, hostNode,
                   historyVars, result, bufVars, guardVars, root>>

\* doHandleModelValueChanged: return when the guard is set; else set it, apply
\* the change to the embedded buffer (whose content-change event is fired
\* before the call returns), and clear it.
doHandleModelValueChanged ==
    /\ ~Idle
    /\ Top.proc = "doHandleModelValueChanged"
    /\ LET a == Top.a
           b == monacoModel(a)
       IN  IF Top.pc = 0
           THEN IF doHandleGuarded(a)
                THEN /\ stack' = Return
                     /\ trace' = Append(trace, Event("doHandle.suppressed", a, 0, a))
                     /\ UNCHANGED <<bufText, changeGuard, historyVars>>
                ELSE /\ changeGuard' = [changeGuard EXCEPT ![a] = TRUE]
                     /\ IF hasModel(a)
                        THEN /\ bufText' = [bufText EXCEPT ![a][b] = changedValue(@, Top.ch)]
                             /\ bufUndo' = [bufUndo EXCEPT ![a][b] = changedHistory(@, Top.ch)]
                             /\ bufRedo' = [bufRedo EXCEPT ![a][b] = changedHistory(@, Top.ch)]
                             /\ stack' = Emit(fireContent(a, b)) \o <<At(1)>> \o Tail(stack)
                             /\ trace' = trace \o <<Event("content.guard.set", a, 0, a),
                                                    Event(IF Top.ch.type = "set"
                                                          THEN "buf.setValue"
                                                          ELSE "buf.applyEdits", a, b, a)>>
                        ELSE /\ stack' = Raised
                             /\ trace' = trace \o <<Event("content.guard.set", a, 0, a),
                                                    Event("error", a, 0, a)>>
                             /\ UNCHANGED <<bufText, historyVars>>
           ELSE /\ changeGuard' = [changeGuard EXCEPT ![a] = FALSE]
                /\ stack' = Return
                /\ trace' = Append(trace, Event("content.guard.clear", a, 0, a))
                /\ UNCHANGED <<bufText, historyVars>>
    /\ UNCHANGED <<docVars, status, cursorVars, ownedVars, layoutVars, result, edModel, bufLang, bufListeners, modelListeners,
                   mimeGuard, root>>

\* updateValue: return when the guard is set; else set it, assign the
\* embedded buffer's text to the Document Model, and clear it.
updateValue ==
    /\ ~Idle
    /\ Top.proc = "updateValue"
    /\ LET a == Top.a
       IN  IF Top.pc = 0
           THEN IF updateValueGuarded(a)
                THEN /\ stack' = Return
                     /\ trace' = Append(trace, Event("updateValue.suppressed", a, 0, a))
                     /\ UNCHANGED <<docText, changeGuard>>
                ELSE /\ changeGuard' = [changeGuard EXCEPT ![a] = TRUE]
                     /\ IF hasModel(a)
                        THEN ValueSet(updateValueText(a), a, <<At(1)>> \o Tail(stack),
                                      Append(trace, Event("content.guard.set", a, 0, a)))
                        ELSE /\ stack' = Raised
                             /\ trace' = trace \o <<Event("content.guard.set", a, 0, a),
                                                    Event("error", a, 0, a)>>
                             /\ UNCHANGED docText
           ELSE /\ changeGuard' = [changeGuard EXCEPT ![a] = FALSE]
                /\ stack' = Return
                /\ trace' = Append(trace, Event("content.guard.clear", a, 0, a))
                /\ UNCHANGED docText
    /\ UNCHANGED <<docMime, textListeners, mimeListeners, status, cursorVars, ownedVars, layoutVars, historyVars, result, bufVars, mimeGuard, root>>

\* ------------------------------------------------ language channel (adapter)

\* Mutant of onMimeTypeChangedGuarded: the guard check is missing.
onMimeTypeChangedUnguarded(a) == FALSE

\* The guard check of _onMimeTypeChanged.
onMimeTypeChangedGuarded(a) == mimeGuard[a]

\* Mutant of updateMimeTypeGuarded: the guard check is missing.
updateMimeTypeUnguarded(a) == FALSE

\* The guard check of updateMimeType.
updateMimeTypeGuarded(a) == mimeGuard[a]

\* monaco.editor.setModelLanguage on a buffer whose language is `old`: the
\* language-change event is fired when the language changes.
setModelLanguage(a, b, old, newLanguage) ==
    IF newLanguage # old THEN Emit(fireLanguage(a, b, newLanguage)) ELSE <<>>

\* Mutant of hasNewValue: every new value is taken as a MIME type.
hasNewValueAlways(newValue) == TRUE

\* The test `if (newValue)` of _onMimeTypeChanged: the empty string is falsy.
hasNewValue(newValue) == newValue # ""

\* _onMimeTypeChanged: return when the guard is set; else set it, apply the
\* language of a non-empty new MIME type to the embedded buffer (whose
\* language-change event is fired before the call returns), and clear it.
onMimeTypeChanged ==
    /\ ~Idle
    /\ Top.proc = "onMimeTypeChanged"
    /\ LET a == Top.a
           b == monacoModel(a)
           newLanguage == findLanguageIdForMimeType(Top.arg)
       IN  IF Top.pc = 0
           THEN IF onMimeTypeChangedGuarded(a)
                THEN /\ stack' = Return
                     /\ trace' = Append(trace, Event("onMimeTypeChanged.suppressed", a, 0, a))
                     /\ UNCHANGED <<bufLang, mimeGuard>>
                ELSE /\ mimeGuard' = [mimeGuard EXCEPT ![a] = TRUE]
                     /\ IF hasNewValue(Top.arg) /\ hasModel(a)
                        THEN /\ bufLang' = [bufLang EXCEPT ![a][b] = newLanguage]
                             /\ stack' = setModelLanguage(a, b, bufLang[a][b], newLanguage)
                                         \o <<At(1)>> \o Tail(stack)
                             /\ trace' = trace \o <<Event("mime.guard.set", a, 0, a),
                                                    Event("buf.setLanguage", a, b, a)>>
                        ELSE IF hasNewValue(Top.arg)
                        THEN /\ stack' = Raised
                             /\ trace' = trace \o <<Event("mime.guard.set", a, 0, a),
                                                    Event("error", a, 0, a)>>
                             /\ UNCHANGED bufLang
                        ELSE /\ stack' = <<At(1)>> \o Tail(stack)
                             /\ trace' = Append(trace, Event("mime.guard.set", a, 0, a))
                             /\ UNCHANGED bufLang
           ELSE /\ mimeGuard' = [mimeGuard EXCEPT ![a] = FALSE]
                /\ stack' = Return
                /\ trace' = Append(trace, Event("mime.guard.clear", a, 0, a))
                /\ UNCHANGED bufLang
    /\ UNCHANGED <<docVars, status, cursorVars, ownedVars, layoutVars, historyVars, result, edModel, bufText, bufListeners, modelListeners,
                   changeGuard, root>>

\* updateMimeType: return when the guard is set; else set it, assign the MIME
\* type to the Document Model, and clear it.
updateMimeType ==
    /\ ~Idle
    /\ Top.proc = "updateMimeType"
    /\ LET a == Top.a
       IN  IF Top.pc = 0
           THEN IF updateMimeTypeGuarded(a)
                THEN /\ stack' = Return
                     /\ trace' = Append(trace, Event("updateMimeType.suppressed", a, 0, a))
                     /\ UNCHANGED <<docMime, mimeGuard>>
                ELSE /\ mimeGuard' = [mimeGuard EXCEPT ![a] = TRUE]
                     /\ MimeTypeSet(Top.arg, a, <<At(1)>> \o Tail(stack),
                                    Append(trace, Event("mime.guard.set", a, 0, a)))
           ELSE /\ mimeGuard' = [mimeGuard EXCEPT ![a] = FALSE]
                /\ stack' = Return
                /\ trace' = Append(trace, Event("mime.guard.clear", a, 0, a))
                /\ UNCHANGED docMime
    /\ UNCHANGED <<docText, textListeners, mimeListeners, status, cursorVars, ownedVars, layoutVars, historyVars, result, bufVars, changeGuard, root>>

\* --------------------------------------------------- binding to a buffer

\* The listeners attached to the buffers of one adapter (bl) once the
\* disposables `handles` have been popped and disposed, last first.
RECURSIVE Disposed(_, _)
Disposed(bl, handles) ==
    IF handles = <<>> THEN bl
    ELSE LET h == handles[Len(handles)]
         IN  Disposed([bl EXCEPT ![h.buf] = RemoveOne(@, h.kind)],
                      SubSeq(handles, 1, Len(handles) - 1))

\* Mutant of disconnectMonacoModel: the array is emptied, nothing is disposed.
disconnectWithoutDispose(a) ==
    [handles |-> <<>>, attached |-> bufListeners[a]]

\* disconnectMonacoModel: every disposable of _monacoModelListeners is popped
\* and disposed.  The listeners left attached, and the array left.
disconnectMonacoModel(a) ==
    [handles |-> <<>>, attached |-> Disposed(bufListeners[a], modelListeners[a])]

\* connectMonacoModel: attach a language and a content listener to the
\* current buffer, updateValue(), then updateMimeType of the buffer's
\* language.
connectMonacoModel ==
    /\ ~Idle
    /\ Top.proc = "connectMonacoModel"
    /\ LET a == Top.a
       IN  IF Top.pc = 0 /\ ~hasModel(a)
           THEN /\ stack' = Raised
                /\ trace' = Append(trace, Event("error", a, 0, a))
                /\ UNCHANGED <<bufListeners, modelListeners>>
           ELSE IF Top.pc = 0
           THEN LET b == monacoModel(a)
                IN  /\ bufListeners' = [bufListeners EXCEPT
                                           ![a][b] = @ \o <<"language", "content">>]
                    /\ modelListeners' = [modelListeners EXCEPT
                                             ![a] = @ \o <<[kind |-> "language", buf |-> b],
                                                           [kind |-> "content", buf |-> b]>>]
                    /\ stack' = <<Call("updateValue", a, ""),
                                  [Top EXCEPT !.pc = 1, !.b = b]>> \o Tail(stack)
                    /\ trace' = Append(trace, Event("connect", a, b, a))
           ELSE /\ stack' = <<Call("updateMimeType", a,
                                   findMimeTypeForLanguageId(bufLang[a][Top.b]))>>
                            \o Tail(stack)
                /\ trace' = trace
                /\ UNCHANGED <<bufListeners, modelListeners>>
    /\ UNCHANGED <<docVars, status, cursorVars, ownedVars, layoutVars, historyVars, result, edModel, bufText, bufLang, guardVars, root>>

\* _onDidChangeModel: disconnectMonacoModel(), then connectMonacoModel().
onDidChangeModel ==
    /\ ~Idle
    /\ Top.proc = "onDidChangeModel"
    /\ LET a == Top.a
           d == disconnectMonacoModel(a)
       IN  /\ bufListeners' = [bufListeners EXCEPT ![a] = d.attached]
           /\ modelListeners' = [modelListeners EXCEPT ![a] = d.handles]
           /\ stack' = <<Call("connectMonacoModel", a, "")>> \o Tail(stack)
           /\ trace' = Append(trace, Event("disconnect", a, 0, a))
    /\ UNCHANGED <<docVars, status, cursorVars, ownedVars, layoutVars, historyVars, result, edModel, bufText, bufLang, guardVars, root>>

\* The options of the constructor assigned whether or not they are supplied.
applyOptionsAlways(created, initial) ==
    [option \in DOMAIN created |-> initial[option].value]

\* The configuration of the editor after the constructor's three tests: an
\* option that is not undefined is assigned through its setter (updateOptions),
\* any other keeps the value the editor was created with.
applyOptions(created, initial) ==
    [option \in DOMAIN created |->
        IF initial[option].given THEN initial[option].value ELSE created[option]]

\* new MonacoCodeEditor(options) on the Document Model: the embedded editor is
\* created (its cursor at the start of its buffer), the adapter subscribes to
\* the editor's model-change, configuration and keydown events, connects to
\* the Document Model's signals, and binds to the buffer.  The value and the
\* language are written into a local editorOptions, and the embedded editor
\* is created from options.editorOptions: they reach it when the caller
\* supplied editorOptions (withOptions), else the editor starts with its own
\* defaults, an empty plaintext buffer.  The editor is created with the
\* configuration `created`; each of the options lineNumbers, wordWrap and
\* readOnly that `initial` supplies is then assigned through its setter,
\* before the adapter subscribes to the configuration event.  autoSizing and
\* minHeight are taken from the editorOptions, false and -1 standing in for a
\* missing or falsy option (0 is a falsy minHeightOption).
NewMonacoCodeEditor(a, withOptions, autoSizingOption, minHeightOption, created, initial) ==
    /\ Idle
    /\ status[a] = "none"
    /\ status' = [status EXCEPT ![a] = "live"]
    /\ edModel' = [edModel EXCEPT ![a] = 1]
    /\ bufText' = [bufText EXCEPT ![a][1] = IF withOptions THEN docText ELSE <<>>]
    /\ bufLang' = [bufLang EXCEPT ![a][1] = IF withOptions
                                            THEN findLanguageIdForMimeType(docMime)
                                            ELSE "plaintext"]
    /\ textListeners' = Append(textListeners, a)
    /\ mimeListeners' = Append(mimeListeners, a)
    /\ stack' = <<Call("connectMonacoModel", a, "")>>
    /\ root' = [value |-> docText, a |-> a, b |-> 1, op |-> "construct",
                created |-> created, initial |-> initial, withOptions |-> withOptions]
    /\ trace' = <<>>
    /\ viewOptions' = [viewOptions EXCEPT ![a] =
                           [lineNumbers |-> applyOptions(created, initial).lineNumbers,
                            wordWrap    |-> applyOptions(created, initial).wordWrap]]
    /\ readOnly' = [readOnly EXCEPT ![a] = applyOptions(created, initial).readOnly]
    /\ edSelections' = [edSelections EXCEPT ![a] = <<Selection(1, 1, 1, 1)>>]
    /\ edPosition' = [edPosition EXCEPT ![a] = [lineNumber |-> 1, column |-> 1]]
    /\ listeners' = [listeners EXCEPT ![a] = <<"model", "configuration", "keydown">>]
    /\ autoSizing' = [autoSizing EXCEPT ![a] = withOptions /\ autoSizingOption]
    /\ minHeight' = [minHeight EXCEPT ![a] =
                         IF withOptions /\ minHeightOption # 0
                         THEN minHeightOption ELSE 0 - 1]
    /\ UNCHANGED <<docText, docMime, bufListeners, modelListeners, guardVars,
                   suggestWidgetVisible, keydownHandlers, editorDisposals,
                   subscriptions, result, hostNode, editorLayout, historyVars>>

\* new MonacoCodeEditor(options) with none of lineNumbers, wordWrap and
\* readOnly supplied, the editor being created with its default configuration.
MonacoCodeEditor(a, withOptions, autoSizingOption, minHeightOption) ==
    NewMonacoCodeEditor(a, withOptions, autoSizingOption, minHeightOption,
                        DefaultConfiguration, NoInitialOptions)

\* new MonacoCodeEditor(options) whose editorOptions, if any, name neither
\* autoSizing nor minHeight.
Construct(a, withOptions) == MonacoCodeEditor(a, withOptions, FALSE, 0)

\* ------------------------------------------- the embedded component's side

\* The longest undo stack followed.
MaxUndo == 2

\* Buffer b of adapter a is edited: the characters at [s, e) are replaced by
\* v, and the buffer fires its content-change event.  An undoable edit (the
\* user typing) puts the text it replaces on the undo stack and empties the
\* redo stack; an edit applied by the component leaves both alone.
BufChange(a, b, s, e, v, undoable) ==
    /\ Idle
    /\ status[a] # "none"
    /\ s <= e /\ e <= Len(bufText[a][b])
    /\ s < e \/ v # <<>>
    /\ Len(bufText[a][b]) - (e - s) + Len(v) <= MaxLen
    /\ bufText' = [bufText EXCEPT ![a][b] = Splice(@, s, e, v)]
    /\ IF undoable
       THEN /\ Len(bufUndo[a][b]) < MaxUndo
            /\ bufUndo' = [bufUndo EXCEPT ![a][b] = <<bufText[a][b]>> \o @]
            /\ bufRedo' = [bufRedo EXCEPT ![a][b] = <<>>]
       ELSE UNCHANGED historyVars
    /\ stack' = Emit(fireContent(a, b))
    /\ root' = [a |-> a, b |-> b, op |-> "buf.edit"]
    /\ trace' = <<Event("buf.edit", a, b, 0)>>
    /\ UNCHANGED <<docVars, status, cursorVars, ownedVars, layoutVars, result, edModel, bufLang, bufListeners, modelListeners, guardVars>>

\* An edit of buffer b of adapter a that is not recorded for undo.
BufEdit(a, b, s, e, v) == BufChange(a, b, s, e, v, FALSE)

\* The user types into buffer b of adapter a.
BufType(a, b, s, e, v) == BufChange(a, b, s, e, v, TRUE)

\* The language of buffer b of adapter a is changed on the embedded side, and
\* the buffer fires its language-change event.
BufSetLanguage(a, b, l) ==
    /\ Idle
    /\ status[a] # "none"
    /\ l # bufLang[a][b]
    /\ bufLang' = [bufLang EXCEPT ![a][b] = l]
    /\ stack' = Emit(fireLanguage(a, b, l))
    /\ root' = [a |-> a, b |-> b, op |-> "buf.language"]
    /\ trace' = <<Event("buf.language", a, b, 0)>>
    /\ UNCHANGED <<docVars, status, cursorVars, ownedVars, layoutVars, historyVars, result, edModel, bufText, bufListeners, modelListeners, guardVars>>

\* The embedded editor of adapter a swaps its buffer for buffer b (its cursor
\* goes to the start of the new buffer) and fires its model-change event, to
\* which the constructor subscribed _onDidChangeModel.
EditorSetModel(a, b) ==
    /\ Idle
    /\ status[a] # "none"
    /\ b # edModel[a]
    /\ edModel' = [edModel EXCEPT ![a] = b]
    /\ edSelections' = [edSelections EXCEPT ![a] = <<Selection(1, 1, 1, 1)>>]
    /\ edPosition' = [edPosition EXCEPT ![a] = [lineNumber |-> 1, column |-> 1]]
    /\ stack' = [i \in 1..Len(SelectSeq(listeners[a], LAMBDA k : k = "model"))
                   |-> Call("onDidChangeModel", a, "")]
    /\ root' = [a |-> a, b |-> b, op |-> "editor.setModel"]
    /\ trace' = <<>>
    /\ UNCHANGED <<docVars, status, readOnly, suggestWidgetVisible, viewOptions, ownedVars, layoutVars, historyVars, result,
                   bufText, bufLang, bufListeners, modelListeners, guardVars>>

\* ----------------------------------------------------------- specifications

\* What the user types or pastes in one edit.
Typed == {v \in Texts : Len(v) <= 1}

\* A text operation the host starts on the Document Model.
HostTextStep ==
    \/ \E v \in Texts : DocSetText(v)
    \/ \E i \in 0..Len(docText), v \in Texts : DocInsert(i, v)
    \/ \E s \in 0..Len(docText), e \in 0..Len(docText) : DocRemove(s, e)
    \/ \E s \in 0..Len(docText), e \in 0..Len(docText), v \in Texts : DocReplace(s, e, v)

\* An edit of buffer b of adapter a on the embedded side.
EmbeddedTextStep(a, b) ==
    \E s \in 0..MaxLen, e \in 0..MaxLen, v \in Typed : BufEdit(a, b, s, e, v)

\* A step of the handler on top of the stack.
HandlerStep ==
    \/ onValueChanged
    \/ doHandleModelValueChanged
    \/ updateValue
    \/ onMimeTypeChanged
    \/ updateMimeType
    \/ connectMonacoModel

\* The content channel: one adapter bound to the Document Model, text
\* operations from both sides, and the editor swapping buffers.
Next ==
    \/ \E w \in BOOLEAN : Construct(1, w)
    \/ HostTextStep
    \/ \E b \in Buffers : EmbeddedTextStep(1, b)
    \/ \E b \in Buffers : EditorSetModel(1, b)
    \/ HandlerStep
    \/ onDidChangeModel

Spec == Init /\ [][Next]_vars

\* The language channel: one adapter bound to the Document Model, MIME type
\* and language operations from both sides, and the editor swapping buffers.
NextMime ==
    \/ \E w \in BOOLEAN : Construct(1, w)
    \/ \E m \in MimeTypes : DocSetMimeType(m)
    \/ \E b \in Buffers, l \in Languages : BufSetLanguage(1, b, l)
    \/ \E b \in Buffers : EditorSetModel(1, b)
    \/ HandlerStep
    \/ onDidChangeModel

SpecMime == Init /\ [][NextMime]_vars

\* Two adapters bound to the same Document Model, each showing one buffer;
\* both channels.
NextShared ==
    \/ \E a \in Adapters, w \in BOOLEAN : Construct(a, w)
    \/ HostTextStep
    \/ \E m \in MimeTypes : DocSetMimeType(m)
    \/ \E a \in Adapters : EmbeddedTextStep(a, edModel[a])
    \/ \E a \in Adapters, l \in Languages : BufSetLanguage(a, edModel[a], l)
    \/ HandlerStep

SpecShared == Init /\ [][NextShared]_vars

\* The Document Model emits a change whose type is none of set, insert,
\* remove and replace, with the span [s, e) and the value v.
DocChangeOther(s, e, v) == s <= e /\ DocSplice("other", s, e, v)

\* The content channel with a Document Model that also emits changes of an
\* unrecognized type.
NextMalformed ==
    \/ Next
    \/ \E s \in 0..Len(docText), e \in 0..Len(docText), v \in Texts : DocChangeOther(s, e, v)

SpecMalformed == Init /\ [][NextMalformed]_vars

\* The embedded side alone: one adapter, edits and language changes of the
\* buffer shown and of the buffer not shown, and the editor swapping buffers.
NextRebind ==
    \/ \E w \in BOOLEAN : Construct(1, w)
    \/ \E b \in Buffers : EmbeddedTextStep(1, b)
    \/ \E b \in Buffers, l \in Languages : BufSetLanguage(1, b, l)
    \/ \E b \in Buffers : EditorSetModel(1, b)
    \/ HandlerStep
    \/ onDidChangeModel

SpecRebind == Init /\ [][NextRebind]_vars

\* ------------------------------------------------- positions and selections

\* MonacoCodeEditor.toMonacoPosition: host (0-based) to embedded (1-based).
toMonacoPosition(position) ==
    [lineNumber |-> position.line + 1, column |-> position.column + 1]

\* Mutant of toPosition: the column is not translated.
toPositionColumnKept(position) ==
    [column |-> position.column, line |-> position.lineNumber - 1]

\* MonacoCodeEditor.toPosition: embedded (1-based) to host (0-based).
toPosition(position) ==
    [column |-> position.column - 1, line |-> position.lineNumber - 1]

\* toValidPosition: the position validated against the buffer shown, in the
\* host's convention.
toValidPosition(a, position) ==
    toPosition(validatePosition(bufText[a][monacoModel(a)], position))

\* toSelection: the two ends of an embedded range, in the host's convention,
\* for adapter a (whose uuid the selection carries).
toSelection(a, selection) ==
    [start |-> toPosition(selection.start), end |-> toPosition(selection.end), uuid |-> a]

\* Mutant of toValidSelection: the range is not validated.
toSelectionUnvalidated(a, selection) == toSelection(a, selection)

\* toValidSelection: the range validated against the buffer shown, as a host
\* selection.
toValidSelection(a, selection) ==
    toSelection(a, validateRange(bufText[a][monacoModel(a)], selection))

\* toMonacoSelection: a host range as an embedded selection.
toMonacoSelection(range) ==
    LET start == toMonacoPosition(range.start)
        end   == toMonacoPosition(range.end)
    IN  Selection(start.lineNumber, start.column, end.lineNumber, end.column)

\* Mutant of toMonacoSelections: an empty sequence stays empty.
toMonacoSelectionsNoReset(selections) ==
    [i \in 1..Len(selections) |-> toMonacoSelection(selections[i])]

\* toMonacoSelections: host ranges as embedded selections; for no range, the
\* selection (0, 0, 0, 0).
toMonacoSelections(selections) ==
    IF Len(selections) > 0
    THEN [i \in 1..Len(selections) |-> toMonacoSelection(selections[i])]
    ELSE <<Selection(0, 0, 0, 0)>>

\* getCursorPosition(): the editor's position, validated.
getCursorPosition(a) == toValidPosition(a, edPosition[a])

\* Mutant of getSelections: zero selections are returned as they are.
getSelectionsNoFallback(a) ==
    [i \in 1..Len(edSelections[a]) |-> toValidSelection(a, edSelections[a][i])]

\* getSelections(): the editor's selections, validated; when it has none, one
\* selection from and to the cursor position.
getSelections(a) ==
    LET selections == edSelections[a]
    IN  IF Len(selections) > 0
        THEN [i \in 1..Len(selections) |-> toValidSelection(a, selections[i])]
        ELSE LET position == getCursorPosition(a)
                 monacoSelection == toMonacoSelection([start |-> position, end |-> position])
             IN  <<toValidSelection(a, monacoSelection)>>

\* getSelection(): the first of getSelections().
getSelection(a) == getSelections(a)[1]

\* A call of the adapter's cursor API, or a cursor event of the embedded
\* editor: no handler of the bridge runs, the editor's cursor state becomes
\* (selections, position).  n is recorded with the operation.
CursorStep(op, a, n, selections, position) ==
    /\ Idle
    /\ status[a] = "live"
    /\ edSelections' = [edSelections EXCEPT ![a] = selections]
    /\ edPosition' = [edPosition EXCEPT ![a] = position]
    /\ root' = [a |-> a, b |-> n, op |-> op]
    /\ trace' = <<>>
    /\ UNCHANGED <<docVars, status, bufVars, guardVars, stack, readOnly,
                   suggestWidgetVisible, viewOptions, ownedVars, layoutVars, historyVars, result>>

\* setSelections(selections): the editor's selections are set, and its
\* position is the cursor end of the first of them.
setSelections(a, selections) ==
    LET ranges == toMonacoSelections(selections)
    IN  CursorStep("setSelections", a, Len(selections), ranges,
                   IF ranges = <<>> THEN edPosition[a] ELSE ranges[1].position)

\* setCursorPosition(position): the editor's position is set, which leaves
\* one empty selection there.
setCursorPosition(a, position) ==
    LET p == toMonacoPosition(position)
    IN  CursorStep("setCursorPosition", a, 1,
                   <<Selection(p.lineNumber, p.column, p.lineNumber, p.column)>>, p)

\* The embedded editor comes to report no selection at all.
EditorNoSelections(a) ==
    /\ edSelections[a] # <<>>
    /\ CursorStep("editor.noSelections", a, 0, <<>>, edPosition[a])

\* The coordinates a caller may pass: from before any text to the last line
\* and the last column a text can have.
Coords == (0 - 1)..MaxLen

HostPositions == [column : Coords, line : Coords]

\* The start of the text, and the last position a caller may pass.
Anchors == {[column |-> 0, line |-> 0], [column |-> MaxLen, line |-> MaxLen]}

\* The ranges a caller passes as selections: empty at any position, or
\* between an anchor and any position, in either direction.
HostRanges ==
    {r \in [start : HostPositions, end : HostPositions] :
        r.start = r.end \/ r.start \in Anchors \/ r.end \in Anchors}

\* A pair of cursors: empty ranges at anchors.
EmptyRanges == {r \in HostRanges : r.start = r.end /\ r.start \in Anchors}

\* The cursor API and the texts: one adapter, text set by the host and edited
\* in the buffer shown, selections and cursor set by the host, and the editor
\* reporting no selection.
NextSelection ==
    \/ \E w \in BOOLEAN : Construct(1, w)
    \/ \E v \in Texts : DocSetText(v)
    \/ EmbeddedTextStep(1, edModel[1])
    \/ HandlerStep
    \/ setSelections(1, <<>>)
    \/ \E r \in HostRanges : setSelections(1, <<r>>)
    \/ \E r \in EmptyRanges, r2 \in EmptyRanges : setSelections(1, <<r, r2>>)
    \/ \E p \in HostPositions : setCursorPosition(1, p)
    \/ EditorNoSelections(1)

SpecSelection == Init /\ [][NextSelection]_vars

\* ----------------------------------------------------------------- queries

\* Mutant of editorGetOffsetAt: the host position is passed on untranslated.
editorGetOffsetAtUntranslated(a, position) ==
    getOffsetAt(bufText[a][monacoModel(a)],
                [lineNumber |-> position.line, column |-> position.column])

\* MonacoCodeEditor.getOffsetAt(position).
editorGetOffsetAt(a, position) ==
    getOffsetAt(bufText[a][monacoModel(a)], toMonacoPosition(position))

\* MonacoCodeEditor.getPositionAt(offset).
editorGetPositionAt(a, offset) ==
    toPosition(getPositionAt(bufText[a][monacoModel(a)], offset))

\* What editor.getTargetAtClientPoint returns: a target with its position, or
\* none (hit is false).
NoTarget == [position |-> [lineNumber |-> 1, column |-> 1], hit |-> FALSE]

Target(position) == [position |-> position, hit |-> TRUE]

\* MonacoCodeEditor.getPositionForCoordinate, given the target under the
\* coordinate: no position (the empty sequence) for no target, else the
\* position made of the target's lineNumber and column.
getPositionForCoordinate(target) ==
    IF ~target.hit
    THEN <<>>
    ELSE LET position == target.position
             line == position.lineNumber
             column == position.column
         IN  <<[column |-> column, line |-> line]>>

\* A query of adapter a: nothing changes but the record of the call.
Query(op, a, arg, value) ==
    /\ Idle
    /\ status[a] = "live"
    /\ result' = [value |-> value, arg |-> arg]
    /\ root' = [a |-> a, b |-> 0, op |-> op]
    /\ trace' = <<>>
    /\ UNCHANGED <<docVars, status, bufVars, guardVars, stack, cursorVars, ownedVars, layoutVars, historyVars>>

\* The three-line text a / bb / ccc.
ScenarioText == <<"a", "\n", "b", "b", "\n", "c", "c", "c">>

\* The offsets a caller may pass: from before the text to after the longest.
Offsets == (0 - 1)..(Len(ScenarioText) + 1)

\* The positions of the buffer adapter a shows, in the embedded convention.
BufferPositions(a) ==
    {q \in [lineNumber : 1..getLineCount(bufText[a][monacoModel(a)]), column : 1..(Len(bufText[a][monacoModel(a)]) + 1)] :
        q.column <= getLineMaxColumn(bufText[a][monacoModel(a)], q.lineNumber)}

\* Queries of one adapter on the texts the host sets.
NextQuery ==
    \/ \E w \in BOOLEAN : Construct(1, w)
    \/ DocSetText(ScenarioText)
    \/ HandlerStep
    \/ \E p \in HostPositions \cup {[column |-> 1, line |-> 2]} :
           Query("getOffsetAt", 1, p, editorGetOffsetAt(1, p))
    \/ \E o \in Offsets : Query("getPositionAt", 1, o, editorGetPositionAt(1, o))
    \/ \E q \in BufferPositions(1) :
           Query("getPositionForCoordinate", 1, Target(q), getPositionForCoordinate(Target(q)))
    \/ Query("getPositionForCoordinate", 1, NoTarget, getPositionForCoordinate(NoTarget))

SpecQuery == Init /\ [][NextQuery]_vars

\* ------------------------------------------------- configuration and keys

\* The adapter a has a listener of kind k on its embedded editor.
Listens(a, k) == \E i \in 1..Len(listeners[a]) : listeners[a][i] = k

\* The embedded editor of adapter a changes its configuration (readOnly
\* becomes ro) and fires its configuration event.  _onDidChangeConfiguration:
\* autoresize(), and when the editor is read-only hideContentWidgets(), which
\* sets the selection (0, 0, 0, 0).
EditorConfiguration(a, ro) ==
    /\ Idle
    /\ status[a] # "none"
    /\ readOnly' = [readOnly EXCEPT ![a] = ro]
    /\ root' = [a |-> a, b |-> 0, op |-> "editor.configuration"]
    /\ IF Listens(a, "configuration")
       THEN IF ro /\ ~autoresize(a, <<>>).raised
            THEN /\ edSelections' = [edSelections EXCEPT ![a] = <<Selection(0, 0, 0, 0)>>]
                 /\ edPosition' = [edPosition EXCEPT ![a] = [lineNumber |-> 0, column |-> 0]]
                 /\ trace' = Append(autoresize(a, <<>>).trace,
                                     Event("hideContentWidgets", a, 0, a))
            ELSE /\ trace' = autoresize(a, <<>>).trace
                 /\ UNCHANGED <<edSelections, edPosition>>
       ELSE /\ trace' = <<>>
            /\ UNCHANGED <<edSelections, edPosition>>
    /\ editorLayout' = [editorLayout EXCEPT ![a] =
                            IF Listens(a, "configuration")
                            THEN autoresize(a, <<>>).layout ELSE @]
    /\ UNCHANGED <<docVars, status, bufVars, guardVars, stack, suggestWidgetVisible, viewOptions,
                   ownedVars, autoSizing, minHeight, hostNode, historyVars, result>>

\* The keydown handlers a host may register.
Handlers == {1, 2}

\* Most registrations of keydown handlers on one adapter.
MaxHandlers == 3

\* addKeydownHandler(handler): the handler is pushed, and a disposable that
\* has not been disposed is returned.  At most MaxHandlers + 1 disposables are
\* handed out by one adapter.
addKeydownHandler(a, h) ==
    /\ Idle
    /\ status[a] # "none"
    /\ Len(keydownHandlers[a]) < MaxHandlers
    /\ Len(subscriptions[a]) <= MaxHandlers
    /\ keydownHandlers' = [keydownHandlers EXCEPT ![a] = Append(@, h)]
    /\ subscriptions' = [subscriptions EXCEPT ![a] =
                             Append(@, [handler |-> h, disposed |-> FALSE])]
    /\ root' = [a |-> a, b |-> h, op |-> "addKeydownHandler"]
    /\ trace' = <<>>
    /\ UNCHANGED <<docVars, status, bufVars, guardVars, stack, cursorVars, listeners,
                   editorDisposals, result, layoutVars, historyVars>>

\* Mutant of removeAllWhere: the first registration only is removed.
removeFirstWhere(handlers, handler) == RemoveOne(handlers, handler)

\* ArrayExt.removeAllWhere(handlers, val => val === handler).
removeAllWhere(handlers, handler) == SelectSeq(handlers, LAMBDA val : val # handler)

\* dispose() of the i-th disposable that addKeydownHandler returned for
\* adapter a: a DisposableDelegate runs its callback the first time it is
\* disposed, and does nothing after that.
disposeKeydownHandler(a, i) ==
    /\ Idle
    /\ status[a] # "none"
    /\ i \in 1..Len(subscriptions[a])
    /\ IF subscriptions[a][i].disposed
       THEN UNCHANGED <<keydownHandlers, subscriptions>>
       ELSE /\ keydownHandlers' = [keydownHandlers EXCEPT ![a] =
                                      removeAllWhere(@, subscriptions[a][i].handler)]
            /\ subscriptions' = [subscriptions EXCEPT ![a][i].disposed = TRUE]
    /\ root' = [a |-> a, b |-> i, op |-> "keydownHandler.dispose"]
    /\ trace' = <<>>
    /\ UNCHANGED <<docVars, status, bufVars, guardVars, stack, cursorVars, listeners,
                   editorDisposals, result, layoutVars, historyVars>>

\* The suggest widget of the embedded editor of adapter a is shown or hidden.
SuggestWidget(a, visible) ==
    /\ Idle
    /\ status[a] = "live"
    /\ visible # suggestWidgetVisible[a]
    /\ suggestWidgetVisible' = [suggestWidgetVisible EXCEPT ![a] = visible]
    /\ root' = [a |-> a, b |-> 0, op |-> "editor.suggestWidget"]
    /\ trace' = <<>>
    /\ UNCHANGED <<docVars, status, bufVars, guardVars, stack, edSelections, edPosition,
                   readOnly, viewOptions, ownedVars, layoutVars, historyVars, result>>

\* isSuggestWidgetVisible(): the editor's context key.
isSuggestWidgetVisible(a) == suggestWidgetVisible[a]

\* Mutant of isOnKeyDownContext: the suggest widget is not looked at.
isOnKeyDownContextAlways(a) == TRUE

\* isOnKeyDownContext(): whether a keydown event goes to the handlers.
isOnKeyDownContext(a) == ~isSuggestWidgetVisible(a)

\* Mutant of findFirstIndex: the last handler that returns true is found.
findLastIndex(handlers, returns) ==
    IF \E i \in 1..Len(handlers) : returns[handlers[i]]
    THEN CHOOSE i \in 1..Len(handlers) :
            /\ returns[handlers[i]]
            /\ \A j \in (i + 1)..Len(handlers) : ~returns[handlers[j]]
    ELSE 0

\* ArrayExt.findFirstIndex(handlers, h => h(editor, event)) where handler h
\* returns returns[h]: the index of the first that returns true, 0 for none.
findFirstIndex(handlers, returns) ==
    IF \E i \in 1..Len(handlers) : returns[handlers[i]]
    THEN CHOOSE i \in 1..Len(handlers) :
            /\ returns[handlers[i]]
            /\ \A j \in 1..(i - 1) : ~returns[handlers[j]]
    ELSE 0

\* What _onKeyDown does for adapter a when handler h would return returns[h]:
\* the handlers invoked, in order, and preventDefault when one returned true.
onKeyDown(a, returns) ==
    IF ~(Len(keydownHandlers[a]) < 1) /\ isOnKeyDownContext(a)
    THEN LET index == findFirstIndex(keydownHandlers[a], returns)
             last  == IF index = 0 THEN Len(keydownHandlers[a]) ELSE index
         IN  [i \in 1..last |-> Event("keydown.handler", a, keydownHandlers[a][i], a)]
             \o (IF index # 0 THEN <<Event("preventDefault", a, 0, a)>> ELSE <<>>)
    ELSE <<>>

\* A key is pressed in the embedded editor of adapter a, which fires its
\* keydown event; handler h would return returns[h].  The handlers that
\* would return true are recorded with the operation.
KeyDown(a, returns) ==
    /\ Idle
    /\ status[a] # "none"
    /\ root' = [a |-> a, b |-> {h \in Handlers : returns[h]}, op |-> "keydown"]
    /\ trace' = <<Event("keydown", a, 0, 0)>>
                \o (IF Listens(a, "keydown") THEN onKeyDown(a, returns) ELSE <<>>)
    /\ UNCHANGED <<docVars, status, bufVars, guardVars, stack, cursorVars, ownedVars, layoutVars, historyVars, result>>

\* Keys: one adapter, handlers registered by the host, the suggest widget
\* shown and hidden, and keys pressed.
NextKeydown ==
    \/ \E w \in BOOLEAN : Construct(1, w)
    \/ HandlerStep
    \/ \E h \in Handlers : addKeydownHandler(1, h)
    \/ \E v \in BOOLEAN : SuggestWidget(1, v)
    \/ \E returns \in [Handlers -> BOOLEAN] : KeyDown(1, returns)

SpecKeydown == Init /\ [][NextKeydown]_vars

\* ----------------------------------------------------------------- dispose

\* Mutant of isDisposed: the flag is never seen set.
isDisposedNever(a) == FALSE

\* The isDisposed getter.
isDisposed(a) == status[a] = "disposed"

\* Mutant of disconnectSignal: the slot stays connected.
disconnectSignalKept(ls, a) == ls

\* signal.disconnect(slot, this): the connections ls of a Document Model
\* signal without the one of adapter a.
disconnectSignal(ls, a) == RemoveOne(ls, a)

\* Mutant of disposeModel: the Document Model is released with its text
\* cleared.
disposeModelCleared(a) == [mimeType |-> docMime, text |-> <<>>]

\* What dispose() leaves of the Document Model: it disconnects its two slots
\* and writes nothing.
disposeModel(a) == [mimeType |-> docMime, text |-> docText]

\* dispose(): return when already disposed; else set the flag, disconnect
\* from the Document Model's signals, dispose the buffer listeners, empty the
\* keydown handlers, dispose the editor listeners and dispose the editor.
dispose(a) ==
    /\ Idle
    /\ status[a] # "none"
    /\ root' = [a |-> a, b |-> 0, op |-> "dispose"]
    /\ IF isDisposed(a)
       THEN /\ trace' = <<Event("dispose.return", a, 0, a)>>
            /\ UNCHANGED <<docVars, status, bufVars, ownedVars>>
       ELSE LET d == disconnectMonacoModel(a)
            IN  /\ status' = [status EXCEPT ![a] = "disposed"]
                /\ docText' = disposeModel(a).text
                /\ docMime' = disposeModel(a).mimeType
                /\ textListeners' = disconnectSignal(textListeners, a)
                /\ mimeListeners' = disconnectSignal(mimeListeners, a)
                /\ bufListeners' = [bufListeners EXCEPT ![a] = d.attached]
                /\ modelListeners' = [modelListeners EXCEPT ![a] = d.handles]
                /\ keydownHandlers' = [keydownHandlers EXCEPT ![a] = <<>>]
                /\ listeners' = [listeners EXCEPT ![a] = <<>>]
                /\ editorDisposals' = [editorDisposals EXCEPT ![a] = @ + 1]
                /\ trace' = <<Event("dispose.signals", a, 0, a),
                              Event("disconnect", a, 0, a),
                              Event("dispose.keydownHandlers", a, 0, a),
                              Event("dispose.listeners", a, 0, a),
                              Event("editor.dispose", a, 0, a)>>
                /\ UNCHANGED <<edModel, bufText, bufLang, subscriptions>>
    /\ UNCHANGED <<guardVars, stack, cursorVars, result, layoutVars, historyVars>>

\* The life of one adapter: construction, operations from the host and from
\* the embedded editor, and dispose(), after which the host and the embedded
\* editor go on.
NextDispose ==
    \/ Construct(1, TRUE)
    \/ dispose(1)
    \/ DocSetText(<<"a">>)
    \/ DocSetMimeType("text/x-python")
    \/ BufEdit(1, edModel[1], 0, 0, <<"\n">>)
    \/ BufSetLanguage(1, edModel[1], "python")
    \/ \E b \in Buffers : EditorSetModel(1, b)
    \/ EditorConfiguration(1, readOnly[1])
    \/ addKeydownHandler(1, 1)
    \/ \E returns \in [Handlers -> BOOLEAN] : KeyDown(1, returns)
    \/ HandlerStep
    \/ onDidChangeModel

SpecDispose == Init /\ [][NextDispose]_vars

\* ------------------------------------------------------------------ sizing

\* The DOM around the embedded editor of adapter a changes: the editor's node
\* is created or removed, put into a parent element or taken out of it, and
\* the parent element is resized, shown or hidden.
DomChange(a, node) ==
    /\ Idle
    /\ status[a] # "none"
    /\ hostNode[a] # node
    /\ hostNode' = [hostNode EXCEPT ![a] = node]
    /\ root' = [a |-> a, b |-> 0, op |-> "dom"]
    /\ trace' = <<>>
    /\ UNCHANGED <<docVars, status, bufVars, guardVars, stack, cursorVars, ownedVars,
                   autoSizing, minHeight, editorLayout, historyVars, result>>

\* The host assigns the adapter's fields autoSizing and minHeight.
AssignSizing(a, auto, minimal) ==
    /\ Idle
    /\ status[a] # "none"
    /\ autoSizing' = [autoSizing EXCEPT ![a] = auto]
    /\ minHeight' = [minHeight EXCEPT ![a] = minimal]
    /\ root' = [a |-> a, b |-> 0, op |-> "sizing"]
    /\ trace' = <<>>
    /\ UNCHANGED <<docVars, status, bufVars, guardVars, stack, cursorVars, ownedVars,
                   hostNode, editorLayout, historyVars, result>>

\* setSize(dimension): resize(dimension).
setSize(a, dimension) ==
    /\ Idle
    /\ status[a] # "none"
    /\ editorLayout' = [editorLayout EXCEPT ![a] = resize(a, dimension, <<>>).layout]
    /\ root' = [a |-> a, b |-> dimension, op |-> "setSize"]
    /\ trace' = resize(a, dimension, <<>>).trace
    /\ UNCHANGED <<docVars, status, bufVars, guardVars, stack, cursorVars, ownedVars,
                   autoSizing, minHeight, hostNode, historyVars, result>>

\* refresh(): autoresize().
refresh(a) ==
    /\ Idle
    /\ status[a] # "none"
    /\ editorLayout' = [editorLayout EXCEPT ![a] = autoresize(a, <<>>).layout]
    /\ root' = [a |-> a, b |-> 0, op |-> "refresh"]
    /\ trace' = autoresize(a, <<>>).trace
    /\ UNCHANGED <<docVars, status, bufVars, guardVars, stack, cursorVars, ownedVars,
                   autoSizing, minHeight, hostNode, historyVars, result>>

\* The minimal heights a host may ask for, in lines.
MinHeights == {0 - 1, 0, 2}

\* The states of the DOM: no editor node, an editor node without a parent, a
\* parent element that is displayed, and one that is not (its offset size is
\* zero while its paddings and borders are still computed).
HostElements == {NoDomNode, NoParent, HostElement(100, 50, 4, 6), HostElement(0, 0, 4, 6)}

\* The dimensions a host may ask for: null, both components given, and one
\* of them negative.
Dimensions ==
    {NullDimension, Dimension(30, 30), Dimension(0 - 1, 30), Dimension(30, 0 - 1)}

\* The texts that differ in their number of lines only.
LineTexts == {v \in Texts : \A i \in 1..Len(v) : v[i] = "\n"}

\* Sizing: one adapter, constructed with sizing options, its DOM changing,
\* sizes requested by the host, configuration events, and text operations
\* from both sides.
NextLayout ==
    \/ \E auto \in BOOLEAN, minimal \in MinHeights : MonacoCodeEditor(1, TRUE, auto, minimal)
    \/ \E auto \in BOOLEAN, minimal \in MinHeights : AssignSizing(1, auto, minimal)
    \/ \E node \in HostElements : DomChange(1, node)
    \/ \E d \in Dimensions : setSize(1, d)
    \/ refresh(1)
    \/ EditorConfiguration(1, FALSE)
    \/ \E v \in LineTexts : DocSetText(v)
    \/ \E s \in 0..MaxLen, e \in 0..MaxLen, v \in LineTexts : BufEdit(1, edModel[1], s, e, v)
    \/ HandlerStep

SpecLayout == Init /\ [][NextLayout]_vars

\* ----------------------------------------------------------------- history

\* The buffer adapter a shows is given the text `text` and the stacks `undone`
\* and `redone` by operation op of the adapter, and fires its content-change
\* event.
HistoryStep(op, a, text, undone, redone) ==
    LET b == monacoModel(a)
    IN  /\ bufText' = [bufText EXCEPT ![a][b] = text]
        /\ bufUndo' = [bufUndo EXCEPT ![a][b] = undone]
        /\ bufRedo' = [bufRedo EXCEPT ![a][b] = redone]
        /\ stack' = Emit(fireContent(a, b))
        /\ root' = [a |-> a, b |-> b, op |-> op]
        /\ trace' = <<Event(op, a, b, a)>>
        /\ UNCHANGED <<docVars, status, cursorVars, ownedVars, layoutVars, result, edModel,
                       bufLang, bufListeners, modelListeners, guardVars>>

\* An operation op of adapter a on the buffer's history that finds nothing
\* to do.
HistoryNoStep(op, a) ==
    /\ root' = [a |-> a, b |-> monacoModel(a), op |-> op]
    /\ trace' = <<>>
    /\ UNCHANGED <<docVars, status, cursorVars, ownedVars, layoutVars, historyVars, result,
                   bufVars, guardVars, stack>>

\* Operation op of adapter a raises an error in the getter monacoModel, and
\* does nothing else.
RaiseOp(op, a) ==
    /\ root' = [a |-> a, b |-> NoBuffer, op |-> op]
    /\ trace' = <<Event("error", a, 0, a)>>
    /\ UNCHANGED <<docVars, status, cursorVars, ownedVars, layoutVars, historyVars, result,
                   bufVars, guardVars, stack>>

\* undo(): monacoModel.undo(), which takes the latest text off the undo
\* stack, if there is one.
undo(a) ==
    /\ Idle
    /\ status[a] # "none"
    /\ LET b == monacoModel(a)
       IN  IF ~hasModel(a) THEN RaiseOp("undo", a)
           ELSE IF bufUndo[a][b] = <<>>
           THEN HistoryNoStep("undo", a)
           ELSE HistoryStep("undo", a, Head(bufUndo[a][b]), Tail(bufUndo[a][b]),
                            <<bufText[a][b]>> \o bufRedo[a][b])

\* redo(): monacoModel.redo(), which takes the latest text off the redo
\* stack, if there is one.
redo(a) ==
    /\ Idle
    /\ status[a] # "none"
    /\ LET b == monacoModel(a)
       IN  IF ~hasModel(a) THEN RaiseOp("redo", a)
           ELSE IF bufRedo[a][b] = <<>>
           THEN HistoryNoStep("redo", a)
           ELSE HistoryStep("redo", a, Head(bufRedo[a][b]),
                            <<bufText[a][b]>> \o bufUndo[a][b], Tail(bufRedo[a][b]))

\* Mutant of clearHistory: the value is set again, and the stacks are kept.
clearHistoryKept(a) ==
    /\ Idle
    /\ status[a] # "none"
    /\ LET b == monacoModel(a)
       IN  HistoryStep("clearHistory", a, bufText[a][b], bufUndo[a][b], bufRedo[a][b])

\* clearHistory(): monacoModel.setValue(monacoModel.getValue()), which
\* empties both stacks.
clearHistory(a) ==
    /\ Idle
    /\ status[a] # "none"
    /\ LET b == monacoModel(a)
       IN  IF ~hasModel(a) THEN RaiseOp("clearHistory", a)
           ELSE HistoryStep("clearHistory", a, bufText[a][b], <<>>, <<>>)

\* History: one adapter, the user typing, the host writing the text, and the
\* adapter's undo(), redo() and clearHistory().
NextHistory ==
    \/ Construct(1, TRUE)
    \/ \E s \in 0..MaxLen, e \in 0..MaxLen, v \in Typed : BufType(1, edModel[1], s, e, v)
    \/ \E v \in Typed : DocSetText(v)
    \/ \E i \in 0..Len(docText), v \in Typed : DocInsert(i, v)
    \/ undo(1)
    \/ redo(1)
    \/ clearHistory(1)
    \/ HandlerStep

SpecHistory == Init /\ [][NextHistory]_vars

\* -------------------------------------------------------- without a buffer

\* monaco IModel.getLineContent: line n (1-based) of text, its line feed
\* excluded.
getLineContent(text, n) ==
    SubSeq(text, LineStart(text, n) + 1, LineStart(text, n) + LineLength(text, n))

\* A query op of adapter a that reads the getter monacoModel: it returns
\* `value`, or raises the getter's error.
BufferQuery(op, a, arg, value) ==
    IF hasModel(a)
    THEN Query(op, a, arg, value)
    ELSE Idle /\ status[a] = "live" /\ RaiseOp(op, a)

\* getLine(line), for a line the buffer has.
GetLine(a, line) ==
    /\ hasModel(a) => line < lineCount(a)
    /\ BufferQuery("getLine", a, line, getLineContent(bufText[a][monacoModel(a)], line + 1))

\* getOffsetAt(position).
GetOffsetAt(a, position) ==
    BufferQuery("getOffsetAt", a, position, editorGetOffsetAt(a, position))

\* getPositionAt(offset).
GetPositionAt(a, offset) ==
    BufferQuery("getPositionAt", a, offset, editorGetPositionAt(a, offset))

\* lineCount.
LineCount(a) == BufferQuery("lineCount", a, 0, lineCount(a))

\* The embedded editor showing a buffer or none: one adapter, the editor
\* swapping its buffer for another or for none, the host writing the text and
\* the MIME type, the user typing, and the adapter's operations on the buffer.
NextNoBuffer ==
    \/ Construct(1, TRUE)
    \/ \E b \in {1, NoBuffer} : EditorSetModel(1, b)
    \/ onDidChangeModel
    \/ \E v \in Typed : DocSetText(v)
    \/ \E m \in {"", "text/x-python"} : DocSetMimeType(m)
    \/ \E b \in Buffers : b = edModel[1] /\ BufType(1, b, 0, 0, <<"a">>)
    \/ GetLine(1, 0)
    \/ GetOffsetAt(1, [column |-> 1, line |-> 0])
    \/ GetPositionAt(1, 1)
    \/ LineCount(1)
    \/ undo(1)
    \/ redo(1)
    \/ clearHistory(1)
    \/ HandlerStep

SpecNoBuffer == Init /\ [][NextNoBuffer]_vars

\* ------------------------------------------------------------------ claims

Live(a) == status[a] = "live"

\* The buffer adapter a shows.
Shown(a) == bufText[a][edModel[a]]

\* The events of the trace, without their details.
Events == [i \in 1..Len(trace) |-> trace[i].ev]

HostTextOps == {"doc.set", "doc.insert", "doc.remove", "doc.replace"}

\* The stack holds a frame of handler proc at step pc.
InFrame(proc, pc) == \E i \in 1..Len(stack) : stack[i].proc = proc /\ stack[i].pc = pc

\* C1: whenever no handler is running, the Document Model text equals the
\* text of the embedded buffer the bound adapter shows, after any sequence of
\* host text mutations (set, insert, remove, replace), embedded edits and
\* buffer swaps.
C1_ContentConvergence ==
    (Idle /\ Live(1)) => docText = Shown(1)

\* C1 witness: a host insert into a non-empty text has been applied to the
\* buffer as an edit and all handlers have returned.
C1_Witness ==
    /\ Idle /\ Live(1)
    /\ root.op = "doc.insert"
    /\ CountAll("buf.applyEdits") = 1
    /\ docText = <<"\n", "a">>

\* C2: a host text mutation causes at most one embedded-buffer mutation and at
\* most one invocation of updateValue, which returns at the guard check: the
\* Document Model is written by nobody but the host, and once the handlers
\* have returned the chain was exactly: guard set, one buffer mutation, one
\* suppressed echo, guard cleared, autoresize.
C2_NoInfinitePropagation ==
    (root.op \in HostTextOps /\ Live(1)) =>
        /\ CountAll("buf.setValue") + CountAll("buf.applyEdits") <= 1
        /\ CountAll("updateValue.suppressed") <= 1
        /\ CountAll("doc.text") = 1
        /\ trace[1] = Event("doc.text", 0, 0, 0)
        /\ Len(stack) <= 3
        /\ Idle => \/ Events = <<"doc.text", "content.guard.set", "buf.setValue",
                                 "updateValue.suppressed", "content.guard.clear",
                                 "autoresize">>
                   \/ Events = <<"doc.text", "content.guard.set", "buf.applyEdits",
                                 "updateValue.suppressed", "content.guard.clear",
                                 "autoresize">>

\* C2 witness: the chain of a host replace has ended after one suppressed echo.
C2_Witness ==
    /\ Idle /\ Live(1)
    /\ root.op = "doc.replace"
    /\ CountAll("updateValue.suppressed") = 1
    /\ CountAll("buf.applyEdits") = 1

\* C3: when doHandleModelValueChanged runs with the content guard clear, the
\* shown buffer's text becomes the change value for type set, and for any
\* other type its previous text with the characters at offsets [start, end)
\* replaced by the change value; this is done by exactly one setValue or
\* applyEdits, and no other buffer changes.
C3_HostToEmbedded ==
    [][(~Idle /\ Top.proc = "doHandleModelValueChanged" /\ Top.pc = 0
            /\ ~changeGuard[Top.a]) =>
        LET a  == Top.a
            b  == edModel[a]
            ch == Top.ch
        IN  /\ bufText'[a][b] = IF ch.type = "set" THEN ch.value
                                ELSE Splice(bufText[a][b], ch.start, ch.end, ch.value)
            /\ \A x \in Adapters, y \in Buffers :
                   <<x, y>> # <<a, b>> => bufText'[x][y] = bufText[x][y]
            /\ Len(trace') = Len(trace) + 2
            /\ trace'[Len(trace')] = Event(IF ch.type = "set" THEN "buf.setValue"
                                            ELSE "buf.applyEdits", a, b, a)
            /\ trace'[Len(trace) + 1].ev = "content.guard.set"]_vars

\* C3 witness: a remove-type change has been applied to a buffer that held
\* two lines, and the handler has not yet returned.
C3_Witness ==
    /\ InFrame("doHandleModelValueChanged", 1)
    /\ root.op = "doc.remove"
    /\ CountAll("buf.applyEdits") = 1
    /\ Shown(1) = <<"\n">>
    /\ docText = <<"\n">>

\* C4: an embedded content-change event of the shown buffer that arrives with
\* the guard clear assigns the buffer's text to the Document Model exactly
\* once, with the guard going clear, set, clear exactly once, and the change
\* notification of that assignment is suppressed: the adapter writes no
\* buffer.
C4_EmbeddedToHost ==
    (root.op = "buf.edit" /\ root.b = edModel[root.a]) =>
        LET a == root.a
        IN  /\ CountAll("doc.text") <= 1
            /\ CountAll("doc.text") = 1 => docText = Shown(a)
            /\ CountAll("buf.setValue") + CountAll("buf.applyEdits") = 0
            /\ Count("content.guard.set", a) <= 1
            /\ changeGuard[a] = (Count("content.guard.set", a) = 1
                                 /\ Count("content.guard.clear", a) = 0)
            /\ Idle => /\ Events = <<"buf.edit", "content.guard.set", "doc.text",
                                     "doHandle.suppressed", "autoresize",
                                     "content.guard.clear">>
                       /\ trace[3].by = a

\* C4 witness: the user's edit of the shown buffer has reached the Document
\* Model and all handlers have returned.
C4_Witness ==
    /\ Idle
    /\ root.op = "buf.edit" /\ root.b = edModel[root.a]
    /\ CountAll("doHandle.suppressed") = 1
    /\ docText = <<"a", "\n">>

\* C5: a Document Model change of an unrecognized type raises an error and is
\* not applied to the embedded buffer as an edit.
C5_UnrecognizedTypeRaises ==
    (root.op = "doc.other" /\ Live(1)) =>
        /\ CountAll("buf.applyEdits") = 0
        /\ Idle => CountAll("error") >= 1

\* C6: through a re-bind (the editor swaps its buffer) the Document Model
\* text is unchanged, and once the re-bind has ended the new buffer's text
\* equals the Document Model text.
C6_RebindPushesHostState ==
    [][root'.op = "editor.setModel" =>
        /\ docText' = docText
        /\ Idle' => bufText'[root'.a][root'.b] = docText']_vars

\* C7: whenever no handler is running, the adapter has exactly one content
\* and one language listener, both attached to the buffer shown, and none on
\* any other buffer; and a content or language change of a buffer that is
\* not shown calls no handler and writes nothing to the Document Model.
C7_NoStaleListeners ==
    /\ (Idle /\ Live(1)) =>
          /\ Len(Receivers(1, edModel[1], "content")) = 1
          /\ Len(Receivers(1, edModel[1], "language")) = 1
          /\ Len(bufListeners[1][edModel[1]]) = 2
          /\ \A b \in Buffers \ {edModel[1]} : bufListeners[1][b] = <<>>
          /\ Len(modelListeners[1]) = 2
    /\ (root.op \in {"buf.edit", "buf.language"} /\ root.b # edModel[root.a]) =>
          /\ Idle
          /\ Len(trace) = 1

\* C7 witness: after two re-binds (away from the first buffer and back), the
\* buffer no longer shown has been edited and differs from the Document
\* Model.
C7_Witness ==
    /\ Idle
    /\ root.op = "buf.edit" /\ root.b = 2 /\ edModel[1] = 1
    /\ bufText[1][2] = <<"a", "a">>
    /\ docText = <<"\n">>

\* C8: when the host sets the MIME type, the Document Model MIME type is
\* written by the host alone; for a non-empty type the language of the shown
\* buffer is set once, to the table's language for the type, and the
\* language-change event this causes is suppressed by the MIME guard.
C8_MimeHostToEmbedded ==
    (root.op = "doc.mime" /\ Live(1)) =>
        /\ CountAll("doc.mime") = 1
        /\ trace[1] = Event("doc.mime", 0, 0, 0)
        /\ CountAll("buf.setLanguage") <= 1
        /\ CountAll("updateMimeType.suppressed") <= 1
        /\ CountAll("buf.setLanguage") = 1 =>
               bufLang[1][edModel[1]] = findLanguageIdForMimeType(docMime)
        /\ (Idle /\ docMime # "") =>
               /\ \/ Events = <<"doc.mime", "mime.guard.set", "buf.setLanguage",
                                "updateMimeType.suppressed", "mime.guard.clear">>
                  \/ Events = <<"doc.mime", "mime.guard.set", "buf.setLanguage",
                                "mime.guard.clear">>
               /\ ~mimeGuard[1]

\* C8 witness: the host has set a MIME type that is not the first one of its
\* language, the buffer's language has changed, and the echo was suppressed.
C8_Witness ==
    /\ Idle /\ Live(1)
    /\ root.op = "doc.mime"
    /\ docMime = "text/x-ipython"
    /\ bufLang[1][edModel[1]] = "python"
    /\ CountAll("updateMimeType.suppressed") = 1

\* C9: a language change of the shown buffer that arrives with the MIME guard
\* clear assigns the MIME type of the new language to the Document Model
\* exactly once, and the MIME-change notification this causes is suppressed:
\* the adapter sets no buffer's language.
C9_MimeEmbeddedToHost ==
    (root.op = "buf.language" /\ root.b = edModel[root.a]) =>
        LET a == root.a
        IN  /\ CountAll("doc.mime") <= 1
            /\ CountAll("doc.mime") = 1 =>
                   docMime = findMimeTypeForLanguageId(bufLang[a][edModel[a]])
            /\ CountAll("buf.setLanguage") = 0
            /\ Idle => /\ Events = <<"buf.language", "mime.guard.set", "doc.mime",
                                     "onMimeTypeChanged.suppressed", "mime.guard.clear">>
                       /\ trace[3].by = a
                       /\ ~mimeGuard[a]

\* C9 witness: the shown buffer's language has become python and the
\* Document Model's MIME type has followed.
C9_Witness ==
    /\ Idle
    /\ root.op = "buf.language" /\ root.b = edModel[root.a]
    /\ bufLang[1][edModel[1]] = "python"
    /\ docMime = "text/x-python"
    /\ CountAll("onMimeTypeChanged.suppressed") = 1

\* The events that write a buffer.
BufferWrites == {"buf.setValue", "buf.applyEdits", "buf.setLanguage"}

\* C10: with two adapters on one Document Model, once the handlers of a text
\* mutation (by the host or in either adapter's buffer) have returned, the
\* Document Model text and the texts of the buffers shown by the bound
\* adapters are equal and all guards are clear; and every write of a buffer
\* is done by the adapter that owns it.
C10_SharedModel ==
    /\ (Idle /\ root.op \in HostTextOps \cup {"buf.edit"}) =>
          \A a \in Adapters : Live(a) =>
              /\ Shown(a) = docText
              /\ ~changeGuard[a] /\ ~mimeGuard[a]
              /\ Count("buf.setValue", a) + Count("buf.applyEdits", a)
                     = IF root.op = "buf.edit" /\ root.a = a THEN 0 ELSE 1
    /\ \A i \in 1..Len(trace) : trace[i].ev \in BufferWrites => trace[i].by = trace[i].a

\* C10 witness: an edit in the second adapter's buffer has reached the
\* Document Model and the first adapter's buffer.
C10_Witness ==
    /\ Idle
    /\ Live(1) /\ Live(2)
    /\ root.op = "buf.edit" /\ root.a = 2
    /\ Count("buf.setValue", 1) = 1
    /\ Shown(1) = <<"a", "\n">>

\* The position p lies within the content of the buffer adapter a shows.
InBounds(a, p) ==
    /\ 0 <= p.line /\ p.line <= getLineCount(Shown(a)) - 1
    /\ 0 <= p.column /\ p.column <= LineLength(Shown(a), p.line + 1)

ZeroPosition == [column |-> 0, line |-> 0]

\* C11: in every state of a constructed adapter getSelections() is a
\* non-empty sequence: the editor's selections (validated) when it has any,
\* else one zero-width selection at the cursor position; and getSelection()
\* is its first element.
C11_SelectionsNeverEmpty ==
    Live(1) =>
        /\ Len(getSelections(1)) >= 1
        /\ Len(getSelections(1)) = Max(1, Len(edSelections[1]))
        /\ edSelections[1] = <<>> =>
               getSelections(1) = <<[start |-> getCursorPosition(1), end |-> getCursorPosition(1),
                                     uuid |-> 1]>>
        /\ getSelection(1) \in {getSelections(1)[i] : i \in 1..Len(getSelections(1))}
        /\ getSelection(1).start = toPosition(validateRange(Shown(1),
               IF edSelections[1] = <<>>
               THEN [start |-> edPosition[1], end |-> edPosition[1]]
               ELSE edSelections[1][1]).start)

\* C11 witness: the editor reports no selection while its cursor is on the
\* second line.
C11_Witness ==
    /\ Live(1)
    /\ root.op = "editor.noSelections"
    /\ edSelections[1] = <<>>
    /\ getCursorPosition(1) = [column |-> 1, line |-> 1]

\* C12: right after setSelections([]) getSelections() is one selection whose
\* start and end are both {line: 0, column: 0}.
C12_EmptySelectionsReset ==
    (root.op = "setSelections" /\ root.b = 0) =>
        getSelections(root.a) = <<[start |-> ZeroPosition, end |-> ZeroPosition, uuid |-> root.a]>>

\* C12 witness: setSelections([]) was called on a two-line text.
C12_Witness ==
    /\ root.op = "setSelections" /\ root.b = 0
    /\ Shown(1) = <<"\n", "a">>
    /\ edSelections[1] = <<Selection(0, 0, 0, 0)>>

\* C13: in every state of a constructed adapter the position returned by
\* getCursorPosition() and every start and end returned by getSelections()
\* lie within the content of the buffer shown.
C13_PositionsInBounds ==
    Live(1) =>
        /\ InBounds(1, getCursorPosition(1))
        /\ \A i \in 1..Len(getSelections(1)) :
              /\ InBounds(1, getSelections(1)[i].start)
              /\ InBounds(1, getSelections(1)[i].end)

\* C13 witness: the editor holds a selection that ends beyond the content,
\* and a cursor before it.
C13_Witness ==
    /\ Live(1) /\ Idle
    /\ Len(edSelections[1]) = 1
    /\ edSelections[1][1].end.lineNumber > getLineCount(Shown(1))
    /\ edSelections[1][1].start.column < 1
    /\ Shown(1) = <<"a">>

\* The positions of the embedded convention that translate host positions.
MonacoPositions == {toMonacoPosition(p) : p \in HostPositions}

\* C14: toMonacoPosition adds 1 to line and column, toPosition subtracts 1
\* from each, the two are inverse of each other, and the position
\* getPositionAt returns is the translation of the embedded one.
C14_PositionRoundTrip ==
    /\ \A p \in HostPositions :
          /\ toMonacoPosition(p) = [lineNumber |-> p.line + 1, column |-> p.column + 1]
          /\ toPosition(toMonacoPosition(p)) = p
    /\ \A q \in MonacoPositions :
          /\ toPosition(q) = [column |-> q.column - 1, line |-> q.lineNumber - 1]
          /\ toMonacoPosition(toPosition(q)) = q
    /\ root.op = "getPositionAt" =>
          toMonacoPosition(result.value) = getPositionAt(Shown(1), result.arg)

\* C14 witness: getPositionAt has returned the host position of the second
\* character of the second line.
C14_Witness ==
    /\ root.op = "getPositionAt"
    /\ result.arg = 2
    /\ Shown(1) = <<"\n", "a">>
    /\ result.value = [column |-> 1, line |-> 1]

\* C15: getPositionForCoordinate returns no position when no target lies
\* under the coordinate, and else the target's position in the host's
\* convention: the embedded position with 1 subtracted from line and column.
C15_CoordinateToHostPosition ==
    root.op = "getPositionForCoordinate" =>
        IF result.arg.hit
        THEN result.value = <<toPosition(result.arg.position)>>
        ELSE result.value = <<>>

\* C16 (as claimed): once the host has set the Document Model text to
\* a / bb / ccc and the handlers have returned, the buffer shown holds that
\* text, getOffsetAt({line: 2, column: 1}) returns 5 and getPositionAt(5)
\* returns {line: 2, column: 1}.
C16_ThreeLineScenario ==
    (Idle /\ Live(1) /\ docText = ScenarioText) =>
        /\ Shown(1) = ScenarioText
        /\ editorGetOffsetAt(1, [column |-> 1, line |-> 2]) = 5
        /\ editorGetPositionAt(1, 5) = [column |-> 1, line |-> 2]

\* C16 (amended): once the host has set the Document Model text to
\* a / bb / ccc (a set-type change) and the handlers have returned, the
\* buffer shown holds that text, getOffsetAt({line: 2, column: 1}) returns 6
\* and getPositionAt(6) returns {line: 2, column: 1}.
C16_ThreeLineScenarioAmended ==
    (Idle /\ Live(1) /\ docText = ScenarioText) =>
        /\ Shown(1) = ScenarioText
        /\ editorGetOffsetAt(1, [column |-> 1, line |-> 2]) = 6
        /\ editorGetPositionAt(1, 6) = [column |-> 1, line |-> 2]
        /\ (root.op = "getOffsetAt" /\ result.arg = [column |-> 1, line |-> 2]) =>
               result.value = 6
        /\ (root.op = "getPositionAt" /\ result.arg = 6) =>
               result.value = [column |-> 1, line |-> 2]

\* C16 witness: the set-type change of the three-line text has been applied
\* to the buffer with setValue and the handlers have returned.
C16_Witness ==
    /\ Idle /\ Live(1)
    /\ root.op = "doc.set"
    /\ CountAll("buf.setValue") = 1
    /\ docText = ScenarioText /\ Shown(1) = ScenarioText
    /\ editorGetOffsetAt(1, [column |-> 1, line |-> 2]) = 6

\* C17: a call of dispose() leaves isDisposed true and the editor disposed
\* once; a call on a disposed adapter returns at once: it detaches nothing,
\* disposes no listener and does not dispose the editor again.
C17_DisposeIdempotent ==
    [][(Idle /\ root'.op = "dispose") =>
          LET a == root'.a
          IN  /\ status'[a] = "disposed"
              /\ editorDisposals'[a] = 1
              /\ Idle'
              /\ status[a] = "disposed" =>
                    /\ Events' = <<"dispose.return">>
                    /\ UNCHANGED <<docVars, status, bufVars, guardVars, cursorVars,
                                   ownedVars, layoutVars, historyVars, result>>]_vars

\* C17 witness: dispose() has been called on a disposed adapter.
C17_Witness ==
    /\ root.op = "dispose"
    /\ Events = <<"dispose.return">>
    /\ editorDisposals[1] = 1

\* C18: once an adapter is disposed it is connected to no signal of the
\* Document Model and has no listener on any buffer or on the editor, the
\* editor was disposed exactly once, the dispose() that disposed it left the
\* keydown handler list empty, and every later operation of the host or of the embedded
\* editor runs no handler of the adapter: no buffer and no Document Model
\* write, no resize, no keydown handler invoked.
C18_DisposedIsDetached ==
    \A a \in Adapters : status[a] = "disposed" =>
        /\ \A i \in 1..Len(textListeners) : textListeners[i] # a
        /\ \A i \in 1..Len(mimeListeners) : mimeListeners[i] # a
        /\ \A b \in Buffers : bufListeners[a][b] = <<>>
        /\ modelListeners[a] = <<>>
        /\ listeners[a] = <<>>
        /\ editorDisposals[a] = 1
        /\ (root.op = "dispose" /\ Events # <<"dispose.return">>) =>
               keydownHandlers[a] = <<>>
        /\ root.op # "dispose" =>
              /\ \A i \in 1..Len(trace) : trace[i].by # a
              /\ \A i \in 1..Len(stack) : stack[i].a # a

\* C18 witness: after dispose() a key was pressed while a handler was
\* registered.
C18_Witness ==
    /\ status[1] = "disposed"
    /\ root.op = "keydown"
    /\ keydownHandlers[1] # <<>>
    /\ docText # Shown(1)

\* C19: dispose() leaves the Document Model's text and MIME type as they
\* were and emits no change notification of the Document Model.
C19_DisposeKeepsModel ==
    [][(Idle /\ root'.op = "dispose") =>
          /\ docText' = docText
          /\ docMime' = docMime
          /\ stack' = <<>>
          /\ \A i \in 1..Len(trace') : trace'[i].ev \notin {"doc.text", "doc.mime"}]_vars

\* C19 witness: a live adapter with a non-empty text was disposed.
C19_Witness ==
    /\ root.op = "dispose"
    /\ CountAll("editor.dispose") = 1
    /\ docText = <<"a">>
    /\ docMime = "text/x-python"

C21_KeydownDispatchOrder ==
    (root.op = "keydown" /\ Live(root.a) /\ keydownHandlers[root.a] # <<>>
        /\ ~suggestWidgetVisible[root.a]) =>
        LET hs      == keydownHandlers[root.a]
            truthy  == {i \in 1..Len(hs) : hs[i] \in root.b}
            stop    == IF truthy = {} THEN Len(hs)
                       ELSE CHOOSE i \in truthy : \A j \in truthy : i <= j
        IN  /\ Len(trace) = 1 + stop + (IF truthy = {} THEN 0 ELSE 1)
            /\ \A i \in 1..stop : trace[i + 1] = Event("keydown.handler", root.a, hs[i], root.a)
            /\ truthy # {} => trace[Len(trace)].ev = "preventDefault"
            /\ truthy = {} => Count("preventDefault", root.a) = 0

\* C21 witness: two handlers are registered, both would return true, and the
\* first one alone was invoked.
C21_Witness ==
    /\ root.op = "keydown" /\ Live(1)
    /\ keydownHandlers[1] = <<2, 1>>
    /\ root.b = {1, 2}
    /\ Events = <<"keydown", "keydown.handler", "preventDefault">>
    /\ trace[2].b = 2

\* The editor's DOM node of adapter a has a parent element.
Attached(a) == hostNode[a].dom /\ hostNode[a].parent

\* The auto-size height of adapter a for the text it shows.
AutoSizeHeight(a) ==
    LET lines == getLineCount(Shown(a))
    IN  IF minHeight[a] < 0
        THEN lineHeight * lines + horizontalScrollbarHeight
        ELSE Max(lineHeight * minHeight[a], lineHeight * lines) + horizontalScrollbarHeight

\* The content box of the parent element of adapter a's editor node.
ContentBox(a) ==
    [width  |-> hostNode[a].offsetWidth - hostNode[a].horizontalSum,
     height |-> hostNode[a].offsetHeight - hostNode[a].verticalSum]

\* C22: when a layout has been applied and no non-negative height was given,
\* its height is, with auto-sizing, lineHeight * lineCount +
\* horizontalScrollbarHeight when minHeight < 0 and max(lineHeight * minHeight,
\* lineHeight * lineCount) + horizontalScrollbarHeight otherwise (100 +
\* scrollbar for minHeight 5, lineHeight 20 and 2 lines), and without
\* auto-sizing the height of the container's content box.
C22_AutoSizeHeight ==
    /\ contentHeight(2, 5) = 100 + horizontalScrollbarHeight
    /\ \A a \in Adapters :
           (/\ Idle /\ root.a = a /\ Live(a)
            /\ Count("layout", a) > 0
            /\ root.op = "setSize" => (root.b.isNull \/ root.b.height < 0)) =>
               editorLayout[a].height =
                   IF autoSizing[a] THEN AutoSizeHeight(a) ELSE ContentBox(a).height

\* C22 witness: a size with a negative height was requested while one line is
\* shown under a minimal height of two lines.
C22_Witness ==
    /\ root.op = "setSize" /\ root.b = Dimension(30, 0 - 1)
    /\ autoSizing[1] /\ minHeight[1] = 2
    /\ getLineCount(Shown(1)) = 1
    /\ editorLayout[1] = [applied |-> TRUE, width |-> 30, height |-> 50]

\* C23: setSize lays out exactly a dimension whose components are both
\* non-negative; for null both components are computed; when exactly one
\* component is negative that one is computed and the other is kept.
C23_SetSizeComponents ==
    \A a \in Adapters :
        (root.op = "setSize" /\ root.a = a /\ Live(a) /\ Attached(a)) =>
            LET d        == root.b
                computed == [width  |-> ContentBox(a).width,
                             height |-> IF autoSizing[a] THEN AutoSizeHeight(a)
                                        ELSE ContentBox(a).height]
            IN  /\ editorLayout[a].applied
                /\ editorLayout[a].width =
                       IF d.isNull \/ d.width < 0 THEN computed.width ELSE d.width
                /\ editorLayout[a].height =
                       IF d.isNull \/ d.height < 0 THEN computed.height ELSE d.height

\* C23 witness: a negative width was requested with a height of 30.
C23_Witness ==
    /\ root.op = "setSize" /\ root.b = Dimension(0 - 1, 30)
    /\ hostNode[1] = HostElement(100, 50, 4, 6)
    /\ editorLayout[1] = [applied |-> TRUE, width |-> 96, height |-> 30]

\* C24: no layout the adapter applies has a negative width or height.
C24_LayoutNonNegative ==
    \A a \in Adapters :
        editorLayout[a].applied => editorLayout[a].width >= 0 /\ editorLayout[a].height >= 0

\* C25: while the editor has no DOM node, or its DOM node has no parent, no
\* step applies a layout or raises an error.
C25_DetachedIsNoOp ==
    [][\A a \in Adapters :
           ~Attached(a) =>
               /\ editorLayout'[a] = editorLayout[a]
               /\ \A i \in 1..Len(trace') :
                      trace'[i].a = a => trace'[i].ev \notin {"layout", "error"}]_vars

\* C25 witness: refresh() with auto-sizing on an editor that was laid out
\* and has lost its DOM node.
C25_Witness ==
    /\ root.op = "refresh" /\ autoSizing[1]
    /\ hostNode[1] = NoDomNode
    /\ editorLayout[1].applied
    /\ Events = <<"autoresize">>

\* C26: with auto-sizing and the container attached, a content change from
\* either side is followed by a layout that comes after the last write of the
\* buffer, and when the handlers have returned the height last applied is
\* the auto-size height of the text shown.
C26_LayoutFollowsContent ==
    \A a \in Adapters :
        (/\ Idle /\ root.op \in HostTextOps \cup {"buf.edit"}
         /\ Live(a) /\ autoSizing[a] /\ Attached(a)) =>
            /\ \E i \in 1..Len(trace) :
                   /\ trace[i] = Event("layout", a, 0, a)
                   /\ \A j \in 1..Len(trace) :
                          (trace[j].a = a /\ trace[j].ev \in {"buf.setValue", "buf.applyEdits", "buf.edit"})
                              => j < i
            /\ editorLayout[a].applied
            /\ editorLayout[a].height = AutoSizeHeight(a)

\* C26 witness: a line was typed into the buffer, and the layout grew.
C26_Witness ==
    /\ Idle /\ root.op = "buf.edit" /\ autoSizing[1] /\ Attached(1)
    /\ minHeight[1] = 0 - 1
    /\ getLineCount(Shown(1)) = 3
    /\ editorLayout[1].height = 70
    /\ Events = <<"buf.edit", "content.guard.set", "doc.text", "doHandle.suppressed",
                  "autoresize", "layout", "content.guard.clear">>

\* C27 as claimed: with the container attached, every configuration event of
\* the embedded editor makes the adapter lay out.
C27_ConfigurationTriggersLayout ==
    \A a \in Adapters :
        (root.op = "editor.configuration" /\ root.a = a /\ Live(a) /\ Attached(a)) =>
            Count("layout", a) = 1

\* C27, amended: with auto-sizing and the container attached, every
\* configuration event of the embedded editor makes the adapter lay out, to
\* the content-box width and the auto-size height.
C27_ConfigurationTriggersLayoutAmended ==
    \A a \in Adapters :
        (/\ root.op = "editor.configuration" /\ root.a = a /\ Live(a) /\ Attached(a)
         /\ autoSizing[a]) =>
            /\ Count("layout", a) = 1
            /\ editorLayout[a] = Layout([width  |-> ContentBox(a).width,
                                          height |-> AutoSizeHeight(a)])

\* C27 witness: a configuration event with auto-sizing, after the text shown
\* had grown without a layout.
C27_Witness ==
    /\ root.op = "editor.configuration" /\ autoSizing[1] /\ Attached(1)
    /\ Events = <<"autoresize", "layout">>
    /\ editorLayout[1].height = 50

\* C28: clearHistory() leaves the text of the buffer and of the Document Model
\* as they were, in every step it takes; once its handlers have returned the
\* two texts are equal, the undo stack is empty and both guards are clear; and
\* an undo() that follows changes neither text.
C28_ClearHistory ==
    [][/\ (root'.op = "clearHistory" /\ Live(root'.a)) =>
              /\ bufText' = bufText
              /\ docText' = docText
              /\ Idle' =>
                     /\ bufText'[root'.a][root'.b] = docText'
                     /\ bufUndo'[root'.a][root'.b] = <<>>
                     /\ ~changeGuard'[root'.a] /\ ~mimeGuard'[root'.a]
       /\ (root.op = "clearHistory" /\ Live(root.a) /\ Idle /\ root'.op = "undo") =>
              bufText' = bufText /\ docText' = docText]_vars

\* C28 witness: clearHistory() has returned on a buffer the user had typed
\* into.
C28_Witness ==
    /\ Idle /\ root.op = "clearHistory" /\ Live(1)
    /\ Shown(1) = <<"a">>
    /\ Events = <<"clearHistory", "content.guard.set", "doc.text", "doHandle.suppressed",
                  "autoresize", "content.guard.clear">>

\* The operations of the adapter that read the buffer and are called by the
\* host.
BufferOps == {"getLine", "getOffsetAt", "getPositionAt", "lineCount", "undo", "redo",
              "clearHistory"}

\* C29: an operation that needs the buffer and is invoked while the embedded
\* editor shows none raises an error: the queries and the history operations
\* called by the host, the handling of a text change and of a change to a
\* non-empty MIME type of the Document Model, and the re-binding after the
\* editor dropped its buffer.
C29_NoBufferRaises ==
    \A a \in Adapters :
        (Idle /\ Live(a) /\ ~hasModel(a)) =>
            /\ (root.op \in BufferOps /\ root.a = a) => Events = <<"error">>
            /\ root.op \in HostTextOps => Count("error", a) = 1
            /\ (root.op = "doc.mime" /\ docMime # "") => Count("error", a) = 1
            /\ (root.op = "editor.setModel" /\ root.a = a) => Count("error", a) = 1

\* A handler proc of adapter a is in progress, between the setting and the
\* clearing of its guard.
Guarding(a, procs) ==
    \E i \in 1..Len(stack) :
        stack[i].a = a /\ stack[i].proc \in procs /\ stack[i].pc = 1

\* C30: a guard of an adapter is set only while a routine of that adapter
\* that sets it is in progress; when no routine is in progress, also after
\* one ended by raising an error, both guards are clear.
C30_GuardScoping ==
    \A a \in Adapters :
        /\ changeGuard[a] => Guarding(a, {"doHandleModelValueChanged", "updateValue"})
        /\ mimeGuard[a] => Guarding(a, {"onMimeTypeChanged", "updateMimeType"})

\* ------------------------------------------------------------ construction

\* The configurations an embedded editor can be created with.
Configurations == [readOnly : BOOLEAN, lineNumbers : BOOLEAN, wordWrap : BOOLEAN]

\* The ways the constructor's options supply lineNumbers, wordWrap, readOnly.
InitialOptions ==
    LET given == {Undefined, Supplied(TRUE), Supplied(FALSE)}
    IN  [readOnly : given, lineNumbers : given, wordWrap : given]

\* The configuration of the editor of adapter a, as the getters lineNumbers,
\* wordWrap and readOnly read it.
getConfiguration(a) ==
    [readOnly    |-> readOnly[a],
     lineNumbers |-> viewOptions[a].lineNumbers,
     wordWrap    |-> viewOptions[a].wordWrap]

\* Construction: one adapter built on each text and MIME type of the Document
\* Model, with and without editorOptions, on every created configuration and
\* every choice of initial options.
NextConstruct ==
    \/ \E w \in BOOLEAN, created \in Configurations, initial \in InitialOptions :
           NewMonacoCodeEditor(1, w, FALSE, 0, created, initial)
    \/ HandlerStep

SpecConstruct == Init /\ [][NextConstruct]_vars

\* C31: construction applies each of the initial options lineNumbers, wordWrap
\* and readOnly to the embedded configuration if and only if it is supplied;
\* an option that is not supplied leaves the editor's own value untouched.
C31_InitialOptions ==
    \A a \in Adapters :
        root.op = "construct" /\ root.a = a =>
            \A option \in DOMAIN root.created :
                /\ root.initial[option].given =>
                       getConfiguration(a)[option] = root.initial[option].value
                /\ ~root.initial[option].given =>
                       getConfiguration(a)[option] = root.created[option]

\* An adapter constructed with lineNumbers false on an editor created with
\* line numbers, and with no readOnly option on an editor created read-only.
C31_Witness ==
    /\ root.op = "construct" /\ Idle
    /\ root.initial.lineNumbers = Supplied(FALSE) /\ root.created.lineNumbers
    /\ ~viewOptions[root.a].lineNumbers
    /\ root.initial.readOnly = Undefined /\ root.created.readOnly
    /\ readOnly[root.a]

\* C32: immediately after an adapter is constructed on a Document Model with
\* text T, the Document Model text is still T and the embedded buffer text is
\* T, whether or not editorOptions were supplied.
C32_ConstructionPreservesContent ==
    \A a \in Adapters :
        root.op = "construct" /\ root.a = a /\ Idle =>
            /\ docText = root.value
            /\ Shown(a) = root.value

\* ------------------------------------------------- another change listener

\* The text the host's change listener insists on.
HostListenerText == <<"b">>

\* The host connects its change listener to model.value.changed.
ConnectHostListener ==
    /\ Idle
    /\ \A i \in 1..Len(textListeners) : textListeners[i] # HostListener
    /\ textListeners' = Append(textListeners, HostListener)
    /\ root' = [a |-> 0, b |-> 0, op |-> "connect.listener"]
    /\ trace' = <<>>
    /\ UNCHANGED <<docText, docMime, mimeListeners, status, cursorVars, ownedVars,
                   layoutVars, historyVars, result, bufVars, guardVars, stack>>

\* The host's change listener is called: it reacts to a text other than the
\* one it insists on by assigning that text to the Document Model, which
\* emits the changed signal before the assignment returns.
hostListener ==
    /\ ~Idle
    /\ Top.proc = "hostListener"
    /\ IF Top.pc = 0 /\ docText # HostListenerText
       THEN ValueSet(HostListenerText, HostListener, <<At(1)>> \o Tail(stack), trace)
       ELSE /\ stack' = Return
            /\ UNCHANGED <<docText, trace>>
    /\ UNCHANGED <<docMime, textListeners, mimeListeners, status, cursorVars, ownedVars,
                   layoutVars, historyVars, result, bufVars, guardVars, root>>

\* One adapter and a change listener of the host on the same Document Model,
\* connected in either order; the user edits the buffer and the host writes
\* the text.
NextListener ==
    \/ Construct(1, TRUE)
    \/ ConnectHostListener
    \/ \E s \in 0..MaxLen, e \in 0..MaxLen, v \in Typed : BufEdit(1, edModel[1], s, e, v)
    \/ \E v \in Typed : DocSetText(v)
    \/ HandlerStep
    \/ hostListener

SpecListener == Init /\ [][NextListener]_vars

\* C33: a Document Model text mutation performed while an adapter's content
\* guard is set is not applied to the embedded buffer by this adapter: the
\* handler called for it returns without touching the buffer and the layout
\* pass (autoresize) is run next; and no step of an embedded-to-host pass of
\* the adapter changes the adapter's buffer.
C33_GuardedMutationSuppressed ==
    [][\A a \in Adapters :
          /\ ~Idle /\ Top.proc = "doHandleModelValueChanged" /\ Top.a = a
                /\ Top.pc = 0 /\ changeGuard[a] =>
                    /\ bufText' = bufText
                    /\ stack' # <<>>
                    /\ Head(stack').proc = "onValueChanged" /\ Head(stack').a = a
          /\ ~Idle /\ Top.proc = "onValueChanged" /\ Top.a = a /\ changeGuard[a] =>
                    /\ bufText' = bufText
                    /\ Len(trace') > Len(trace)
                    /\ trace'[Len(trace) + 1] = Event("autoresize", a, 0, a)
          /\ ~Idle /\ root.op = "buf.edit" /\ root.a = a =>
                    bufText'[a] = bufText[a]]_vars

\* The user's edit of the buffer has been written to the Document Model, the
\* host's listener has answered it with another text under the adapter's
\* guard, the adapter has run its layout pass for that mutation, and the pass
\* has ended with the buffer keeping the user's text.
C33_Witness ==
    /\ Idle /\ root.op = "buf.edit" /\ Live(root.a)
    /\ \E i \in 1..Len(trace), j \in 1..Len(trace), k \in 1..Len(trace) :
           /\ i < j /\ j < k
           /\ trace[i] = Event("doc.text", 0, 0, HostListener)
           /\ trace[j] = Event("doHandle.suppressed", root.a, 0, root.a)
           /\ trace[k] = Event("autoresize", root.a, 0, root.a)
    /\ docText = HostListenerText
    /\ Shown(root.a) # docText

\* C34: a Document Model MIME-type change to the empty value leaves the
\* language of every embedded buffer unchanged, writes nothing back to the
\* Document Model, and ends with the MIME guards clear.
C34_EmptyMimeType ==
    [][root.op = "doc.mime" /\ docMime = "" /\ ~Idle =>
          /\ bufLang' = bufLang
          /\ docMime' = docMime /\ docText' = docText
          /\ Idle' => \A a \in Adapters : ~mimeGuard'[a]]_vars

\* The host has assigned the empty MIME type while the adapter showed a
\* python buffer; the adapter's handler has run through, and the buffer is
\* still a python buffer.
C34_Witness ==
    /\ Idle /\ root.op = "doc.mime" /\ docMime = ""
    /\ Live(1)
    /\ bufLang[1][edModel[1]] = "python"
    /\ \E i \in 1..Len(trace) : trace[i] = Event("mime.guard.clear", 1, 0, 1)

\* -------------------------------------------- configuration and selections

\* One adapter whose editor fires configuration events, read-only or not,
\* between selections set by the host on the texts the host writes.
NextConfiguration ==
    \/ \E w \in BOOLEAN : Construct(1, w)
    \/ \E v \in Typed : DocSetText(v)
    \/ HandlerStep
    \/ \E r \in HostRanges : setSelections(1, <<r>>)
    \/ \E r \in EmptyRanges, r2 \in EmptyRanges : setSelections(1, <<r, r2>>)
    \/ \E ro \in BOOLEAN : EditorConfiguration(1, ro)

SpecConfiguration == Init /\ [][NextConfiguration]_vars

\* C35: a configuration-change event of the embedded editor leaves the
\* editor's selections unchanged when the editor is not read-only; when it is
\* read-only, the editor is left with a single zero-width selection at the
\* start of the document.
C35_ConfigurationSelections ==
    [][\A a \in Adapters :
          Idle /\ Live(a) /\ root'.op = "editor.configuration" /\ root'.a = a =>
              IF readOnly'[a]
              THEN /\ Len(edSelections'[a]) = 1
                   /\ getSelections(a)' =
                          <<[start |-> [column |-> 0, line |-> 0],
                             end   |-> [column |-> 0, line |-> 0],
                             uuid  |-> a]>>
              ELSE /\ edSelections'[a] = edSelections[a]
                   /\ edPosition'[a] = edPosition[a]]_vars

\* A read-only configuration event on a non-empty text has hidden the content
\* widgets and left the editor with one selection.
C35_Witness ==
    /\ Idle /\ root.op = "editor.configuration" /\ Live(root.a)
    /\ readOnly[root.a]
    /\ docText # <<>>
    /\ \E i \in 1..Len(trace) : trace[i].ev = "hideContentWidgets"
    /\ Len(getSelections(root.a)) = 1

\* --------------------------------------------------- removing key handlers

\* The keydown handlers a host registers and removes: one more than Handlers,
\* so that a removal can leave two different handlers behind.
RemovableHandlers == Handlers \cup {3}

\* Handlers registered, removed through the disposables returned, registered
\* again, and keys pressed that no handler consumes, so that every registered
\* handler is invoked.
NextSubscription ==
    \/ Construct(1, TRUE)
    \/ HandlerStep
    \/ \E h \in RemovableHandlers : addKeydownHandler(1, h)
    \/ \E i \in 1..(MaxHandlers + 1) : disposeKeydownHandler(1, i)
    \/ KeyDown(1, [h \in RemovableHandlers |-> FALSE])

SpecSubscription == Init /\ [][NextSubscription]_vars

\* The handlers registered with adapter a.
Registered(a) == {keydownHandlers[a][k] : k \in 1..Len(keydownHandlers[a])}

\* C36: disposing the subscription returned by addKeydownHandler(h) removes
\* every registration of h and leaves the other handlers registered in their
\* order; disposing it again changes nothing; and a keydown invokes no handler
\* that is not registered.
C36_HandlerRemoval ==
    [][\A a \in Adapters :
          /\ Idle /\ root'.op = "keydownHandler.dispose" /\ root'.a = a =>
                LET s == subscriptions[a][root'.b]
                IN  IF s.disposed
                    THEN /\ keydownHandlers'[a] = keydownHandlers[a]
                         /\ subscriptions'[a] = subscriptions[a]
                    ELSE /\ s.handler \notin Registered(a)'
                         /\ keydownHandlers'[a] =
                                SelectSeq(keydownHandlers[a], LAMBDA x : x # s.handler)
                         /\ subscriptions'[a][root'.b].disposed
          /\ Idle /\ root'.op = "keydown" /\ root'.a = a =>
                /\ keydownHandlers'[a] = keydownHandlers[a]
                /\ \A k \in 1..Len(trace') :
                       trace'[k].ev = "keydown.handler" => trace'[k].b \in Registered(a)]_vars

\* Handler 1 was registered twice, once before and once after handler 3, then
\* handler 2; the first subscription of handler 1 has been disposed, which
\* left handlers 3 and 2 registered in that order; and it has been disposed
\* once more.
C36_Witness ==
    /\ Idle /\ root.op = "keydownHandler.dispose" /\ Live(root.a)
    /\ root.b = 1
    /\ Len(subscriptions[root.a]) = 4
    /\ subscriptions[root.a][1] = [handler |-> 1, disposed |-> TRUE]
    /\ subscriptions[root.a][2] = [handler |-> 3, disposed |-> FALSE]
    /\ subscriptions[root.a][3] = [handler |-> 1, disposed |-> FALSE]
    /\ subscriptions[root.a][4] = [handler |-> 2, disposed |-> FALSE]
    /\ keydownHandlers[root.a] = <<3, 2>>

\* ------------------------------------------------- offsets and positions

\* The sum, over the lines before host line `line`, of line length + 1.
RECURSIVE PrecedingLength(_, _)
PrecedingLength(text, line) ==
    IF line <= 0 THEN 0
    ELSE PrecedingLength(text, line - 1) + LineLength(text, line) + 1

\* The host positions within the content of the buffer adapter a shows.
InBoundsPositions(a) == {toPosition(q) : q \in BufferPositions(a)}

\* C37: on the current content getOffsetAt and getPositionAt are inverse of
\* each other: getPositionAt(getOffsetAt(p)) = p for every in-bounds host
\* position p, getOffsetAt(getPositionAt(o)) = o for every offset o in
\* [0, length], and getOffsetAt({line, column}) is the sum over the preceding
\* lines of (line length + 1), plus column.
C37_OffsetPositionInverse ==
    Live(1) =>
        /\ \A p \in InBoundsPositions(1) :
              /\ InBounds(1, p)
              /\ editorGetPositionAt(1, editorGetOffsetAt(1, p)) = p
              /\ editorGetOffsetAt(1, p) = PrecedingLength(Shown(1), p.line) + p.column
        /\ \A o \in 0..Len(Shown(1)) :
              /\ editorGetPositionAt(1, o) \in InBoundsPositions(1)
              /\ editorGetOffsetAt(1, editorGetPositionAt(1, o)) = o
        /\ (root.op = "getOffsetAt" /\ InBounds(1, result.arg)) =>
              editorGetPositionAt(1, result.value) = result.arg
        /\ (root.op = "getPositionAt" /\ result.arg \in 0..Len(Shown(1))) =>
              editorGetOffsetAt(1, result.value) = result.arg

\* getOffsetAt has returned 6 for the start of the third line of a / bb / ccc,
\* where getPositionAt(6) is.
C37_Witness ==
    /\ root.op = "getOffsetAt" /\ Live(1)
    /\ Shown(1) = ScenarioText
    /\ result.arg = [column |-> 1, line |-> 2]
    /\ result.value = 6
    /\ editorGetPositionAt(1, 6) = result.arg

\* ------------------------------------------------------------- coordinates

\* MonacoCodeEditor.getCoordinateForPosition, given what
\* editor.getScrolledVisiblePosition returns for the position: left, top and
\* height are taken from it, right is left, bottom is top - height, and width
\* is right - left.
getCoordinateForPosition(visible) ==
    [width  |-> visible.left - visible.left,
     height |-> visible.height,
     left   |-> visible.left,
     right  |-> visible.left,
     top    |-> visible.top,
     bottom |-> visible.top - visible.height]

\* What getScrolledVisiblePosition may return: a position at the origin or
\* inside the editor, on a line of no height or of the line height.
VisiblePositions == [height : {0, lineHeight}, left : {0, 7}, top : {0, lineHeight}]

\* Coordinates asked of one adapter on the texts of the Document Model.
NextCoordinate ==
    \/ \E w \in BOOLEAN : Construct(1, w)
    \/ HandlerStep
    \/ \E visible \in VisiblePositions :
           Query("getCoordinateForPosition", 1, visible, getCoordinateForPosition(visible))

SpecCoordinate == Init /\ [][NextCoordinate]_vars

\* C38: getCoordinateForPosition returns a consistent rectangle: left, top
\* and height are those of the embedded editor's visible position, and
\* right >= left, bottom >= top, width = right - left, height = bottom - top.
C38_ConsistentRectangle ==
    root.op = "getCoordinateForPosition" =>
        /\ result.value.left = result.arg.left
        /\ result.value.top = result.arg.top
        /\ result.value.height = result.arg.height
        /\ result.value.right >= result.value.left
        /\ result.value.bottom >= result.value.top
        /\ result.value.width = result.value.right - result.value.left
        /\ result.value.height = result.value.bottom - result.value.top

=============================================================================
